---------------------------- MODULE Spec2Model ----------------------------
(***************************************************************************)
(* QuantMuse multi-factor pipeline and HFT decision-engine bridge.         *)
(*                                                                         *)
(*   data_service/hft/decision_engine.py      HFTDecisionEngine            *)
(*   data_service/pipelines/multifactor_pipeline.py                        *)
(*                                            run_multifactor_strategy     *)
(*                                                                         *)
(* Floating-point values are modelled as exact rationals [n, d] in lowest  *)
(* terms with d > 0; a record with d = 0 is a non-finite float (n = 0 is   *)
(* NaN, n = 1 / -1 is +inf / -inf).                                        *)
(***************************************************************************)
EXTENDS Integers, Sequences, FiniteSets, TLC

VARIABLES
    hft_engine,        \* the HFTDecisionEngine handed to the run (or absent)
    decision,          \* outcome of the most recent refine_weights call
    pc,                \* position of run_multifactor_strategy
    args,              \* start_date, end_date, config of the run
    fetch,             \* what fetch_historical_data did for each symbol
    price_df,          \* the price panel: columns and date index
    returns_index,     \* returns.index
    rebal_dates,       \* rebal_dates
    ri,                \* number of rebalance dates the loop has consumed
    weights,           \* the weights matrix (row per position of returns.index)
    committed,         \* rows written by `weights.loc[d] = w`, in order
    factor_snapshots,  \* factor_snapshots
    hft_orders,        \* hft_orders
    hft_latency_ms,    \* hft_latency_ms
    hft_cpp_hits,      \* hft_cpp_hits
    turnover,          \* turnover (line 374), one value per row
    trading_cost,      \* trading_cost (lines 375-379), one value per row
    asset_returns,     \* the values of `returns`, one row per position
    port_ret,          \* port_ret (line 380), one value per row
    ic_records,        \* ic_records
    refine_calls,      \* timestamps of the refine_weights calls the run made
    run_result,        \* the dict the run returns
    scoring,           \* one scoring pass of lines 270-297 on a factor matrix
    calls,             \* the refine_weights calls in progress on the engine
    outcome            \* how the run ended: none / empty / raised / ok

vars == <<hft_engine, decision, pc, args, fetch, price_df, returns_index,
          rebal_dates, ri, weights, committed, factor_snapshots, hft_orders,
          hft_latency_ms, hft_cpp_hits, turnover, trading_cost, asset_returns,
          port_ret, ic_records, refine_calls, run_result, scoring, calls, outcome>>

runVars == <<pc, args, fetch, price_df, returns_index, rebal_dates, ri,
             weights, committed, factor_snapshots, hft_orders,
             hft_latency_ms, hft_cpp_hits, turnover, trading_cost,
             asset_returns, port_ret, ic_records, refine_calls, run_result, scoring, calls,
             outcome>>

-----------------------------------------------------------------------------
(* Bounds of the model *)

\* calendar days in a month of the model calendar
MonthLen == 3
\* last calendar day a price panel may reach
MaxDay == 10
\* longest library_paths list an engine is constructed with
MaxPaths == 2

Symbols == {"A", "B", "C"}

-----------------------------------------------------------------------------
(* Exact rationals standing for Python floats *)

Abs(x) == IF x < 0 THEN -x ELSE x

RECURSIVE GCD(_, _)
GCD(a, b) == IF b = 0 THEN a ELSE GCD(b, a % b)

Norm(n, d) ==
    LET s == IF d < 0 THEN -1 ELSE 1
        g == GCD(Abs(n), Abs(d))
    IN  IF d = 0 THEN [n |-> 0, d |-> 0]
        ELSE IF n = 0 THEN [n |-> 0, d |-> 1]
        ELSE [n |-> (s * n) \div g, d |-> (s * d) \div g]

R(n) == [n |-> n, d |-> 1]
Q(n, d) == Norm(n, d)
NaN == [n |-> 0, d |-> 0]
Inf == [n |-> 1, d |-> 0]

IsFinite(x) == x.d # 0

\* the common divisor of the denominators is taken out first, which keeps
\* the intermediate products small
RAdd(a, b) == IF IsFinite(a) /\ IsFinite(b)
              THEN LET g == GCD(a.d, b.d)
                   IN  Norm(a.n * (b.d \div g) + b.n * (a.d \div g),
                            (a.d \div g) * b.d)
              ELSE NaN
RNeg(a) == [n |-> -a.n, d |-> a.d]
RSub(a, b) == RAdd(a, RNeg(b))
RMul(a, b) == IF IsFinite(a) /\ IsFinite(b)
              THEN Norm(a.n * b.n, a.d * b.d) ELSE NaN
RDiv(a, b) == IF IsFinite(a) /\ IsFinite(b) /\ b.n # 0
              THEN Norm(a.n * b.d, a.d * b.n) ELSE NaN
RAbs(a) == [n |-> Abs(a.n), d |-> a.d]
\* comparisons with a NaN operand are False, as for floats
RLt(a, b) == /\ IsFinite(a) /\ IsFinite(b)
             /\ LET g == GCD(a.d, b.d)
                IN  a.n * (b.d \div g) < b.n * (a.d \div g)
RLe(a, b) == /\ IsFinite(a) /\ IsFinite(b)
             /\ LET g == GCD(a.d, b.d)
                IN  a.n * (b.d \div g) <= b.n * (a.d \div g)
RMin(a, b) == IF RLt(b, a) THEN b ELSE a
RMax(a, b) == IF RLt(a, b) THEN b ELSE a

\* sum of a sequence of floats
RECURSIVE RSumSeq(_)
RSumSeq(s) == IF s = <<>> THEN R(0) ELSE RAdd(Head(s), RSumSeq(Tail(s)))

\* sum of the values of a function over the set S of its keys
RECURSIVE RSum(_, _)
RSum(f, S) ==
    IF S = {} THEN R(0)
    ELSE LET k == CHOOSE x \in S : TRUE
         IN  RAdd(f[k], RSum(f, S \ {k}))

SeqAbs(s) == [i \in DOMAIN s |-> RAbs(s[i])]
SeqAllFinite(s) == \A i \in DOMAIN s : IsFinite(s[i])

-----------------------------------------------------------------------------
(* HFTDecisionEngine: construction *)

\* What ctypes.CDLL does with one entry of library_paths in this environment:
\*   "missing"   CDLL raises OSError
\*   "nosymbol"  a library loads but has no decide_orders attribute
\*   "ok"        a library loads and exports decide_orders
PathKinds == {"missing", "nosymbol", "ok"}

\* _load_library: the first path that loads, None when every path raises
RECURSIVE LoadLibrary(_)
LoadLibrary(paths) ==
    IF paths = <<>> THEN "None"
    ELSE IF Head(paths) # "missing" THEN Head(paths)
    ELSE LoadLibrary(Tail(paths))

\* _configure_signature: the handle self._decide_fn is set or stays None
ConfigureSignature(lib) ==
    IF lib = "None" THEN FALSE
    ELSE IF lib = "nosymbol" THEN FALSE
    ELSE TRUE

\* __init__
NewEngine(paths, enabled, fallback_mix) ==
    LET lib == IF enabled THEN LoadLibrary(paths) ELSE "None"
    IN  [present      |-> TRUE,
         library_paths |-> paths,
         enabled      |-> enabled,
         fallback_mix |-> fallback_mix,
         lib          |-> lib,
         decide_fn    |-> IF enabled THEN ConfigureSignature(lib) ELSE FALSE]

\* hft_engine=None of run_multifactor_strategy
NoEngine ==
    [present |-> FALSE, library_paths |-> <<>>, enabled |-> FALSE,
     fallback_mix |-> R(0), lib |-> "None", decide_fn |-> FALSE]

-----------------------------------------------------------------------------
(* HFTDecisionEngine: the two refinement paths *)

Mean(arr) == RDiv(RSumSeq(arr), R(Len(arr)))

\* numpy's std(): population variance; only its sign is needed
Variance(arr) ==
    LET m == Mean(arr)
    IN  RDiv(RSumSeq([i \in DOMAIN arr |-> RMul(RSub(arr[i], m), RSub(arr[i], m))]),
             R(Len(arr)))

\* `np.sum(np.abs(x)) or 1.0`
L1OrOne(arr) ==
    LET s == RSumSeq(SeqAbs(arr)) IN IF s = R(0) THEN R(1) ELSE s

\* Lines 175-180.  When std > 1e-8 the alpha is centred and scaled by
\* 1 / (std + 1e-8); that positive factor cancels in the division by the L1
\* norm which follows, so the normalised vector is centred / sum|centred|.
AdjustedAlpha(alpha_arr) ==
    LET m        == Mean(alpha_arr)
        adjusted == IF RLt(R(0), Variance(alpha_arr))
                    THEN [i \in DOMAIN alpha_arr |-> RSub(alpha_arr[i], m)]
                    ELSE alpha_arr
        norm     == L1OrOne(adjusted)
    IN  [i \in DOMAIN adjusted |-> RDiv(adjusted[i], norm)]

\* np.clip(x, 0.0, 1.0)
Clip01(x) == RMax(R(0), RMin(x, R(1)))

\* the mix with a step of 0.5 per unit of aggressiveness
FallbackMixDoubleStep(fallback_mix, aggressiveness) ==
    Clip01(RAdd(fallback_mix, RMul(aggressiveness, Q(1, 2))))

\* mix of line 185
FallbackMixOf(fallback_mix, aggressiveness) ==
    Clip01(RAdd(fallback_mix, RMul(aggressiveness, Q(1, 4))))

\* _python_refine
PythonRefine(fallback_mix, alpha_arr, base_arr, aggressiveness) ==
    LET adjusted_alpha  == AdjustedAlpha(alpha_arr)
        base_norm       == L1OrOne(base_arr)
        base_normalized == [i \in DOMAIN base_arr |-> RDiv(base_arr[i], base_norm)]
        mix             == FallbackMixOf(fallback_mix, aggressiveness)
        blended         == [i \in DOMAIN alpha_arr |->
                              RAdd(RMul(RSub(R(1), mix), base_normalized[i]),
                                   RMul(mix, adjusted_alpha[i]))]
        norm            == L1OrOne(blended)
    IN  [i \in DOMAIN blended |-> RDiv(blended[i], norm)]

\* What the native decide_orders does on one call: it raises into Python
\* (kind "raise"), or returns `status` having written `out`.
NativeRaise == [kind |-> "raise", status |-> 0, out |-> <<>>]
NativeReturn(status, out) == [kind |-> "return", status |-> status, out |-> out]

\* the `refined / norm` of _call_cpp, guarded by norm > 0
CppNormalize(refined) ==
    LET norm == RSumSeq(SeqAbs(refined))
    IN  IF RLt(R(0), norm)
        THEN [i \in DOMAIN refined |-> RDiv(refined[i], norm)]
        ELSE refined

\* _call_cpp without the np.isfinite check of line 160
CallCppNoFiniteCheck(decide_fn, alpha_arr, base_arr, native) ==
    IF ~decide_fn THEN [ret |-> "None", arr |-> <<>>, called |-> FALSE]
    ELSE IF Len(alpha_arr) = 0 THEN [ret |-> "None", arr |-> <<>>, called |-> FALSE]
    ELSE IF native.kind = "raise" THEN [ret |-> "raise", arr |-> <<>>, called |-> TRUE]
    ELSE IF native.status # 0 THEN [ret |-> "None", arr |-> <<>>, called |-> TRUE]
    ELSE [ret |-> "array", arr |-> CppNormalize(native.out), called |-> TRUE]

\* _call_cpp without the status check of line 156
CallCppIgnoresStatus(decide_fn, alpha_arr, base_arr, native) ==
    IF ~decide_fn THEN [ret |-> "None", arr |-> <<>>, called |-> FALSE]
    ELSE IF Len(alpha_arr) = 0 THEN [ret |-> "None", arr |-> <<>>, called |-> FALSE]
    ELSE IF native.kind = "raise" THEN [ret |-> "raise", arr |-> <<>>, called |-> TRUE]
    ELSE IF ~SeqAllFinite(native.out) THEN [ret |-> "None", arr |-> <<>>, called |-> TRUE]
    ELSE [ret |-> "array", arr |-> CppNormalize(native.out), called |-> TRUE]

\* _call_cpp: ret is "None", "array" (arr holds it) or "raise" (the fault
\* of the native call leaves _call_cpp); called tells whether the routine ran.
CallCpp(decide_fn, alpha_arr, base_arr, native) ==
    IF ~decide_fn THEN [ret |-> "None", arr |-> <<>>, called |-> FALSE]
    ELSE IF Len(alpha_arr) = 0 THEN [ret |-> "None", arr |-> <<>>, called |-> FALSE]
    ELSE IF native.kind = "raise" THEN [ret |-> "raise", arr |-> <<>>, called |-> TRUE]
    ELSE IF native.status # 0 THEN [ret |-> "None", arr |-> <<>>, called |-> TRUE]
    ELSE IF ~SeqAllFinite(native.out) THEN [ret |-> "None", arr |-> <<>>, called |-> TRUE]
    ELSE [ret |-> "array", arr |-> CppNormalize(native.out), called |-> TRUE]

\* dict(zip(keys, arr))
ZipDict(keys, arr) ==
    [k \in {keys[i] : i \in DOMAIN keys} |->
        arr[CHOOSE i \in DOMAIN keys : keys[i] = k]]

\* base_weights.get(k, 0.0)
GetOrZero(dict, k) == IF k \in DOMAIN dict THEN dict[k] ELSE R(0)

\* the guard of line 110 without its `not self.enabled`
ReturnsBaseOnlyForEmptyAlpha(engine, keys) == keys = <<>>

\* the guard of line 110
ReturnsBaseUnchanged(engine, keys) == ~engine.enabled \/ keys = <<>>

\* refine_weights.  keys is list(alpha_vector.keys()).  The result is the
\* HFTDecisionResult, or raised = TRUE when the call ends in an exception.
RefineWeights(engine, timestamp, keys, alpha_vector, base_weights, aggressiveness, native) ==
    IF ReturnsBaseUnchanged(engine, keys)
    THEN [raised |-> FALSE, weights |-> base_weights, latency_ms |-> "None",
          source |-> "python-fallback", timestamp |-> timestamp,
          called |-> FALSE]
    ELSE
      LET alpha_arr == [i \in DOMAIN keys |-> alpha_vector[keys[i]]]
          base_arr  == [i \in DOMAIN keys |-> GetOrZero(base_weights, keys[i])]
          cpp       == IF engine.decide_fn
                       THEN CallCpp(engine.decide_fn, alpha_arr, base_arr, native)
                       ELSE [ret |-> "None", arr |-> <<>>, called |-> FALSE]
          used_cpp  == cpp.ret = "array"
          refined   == IF cpp.ret = "array" THEN cpp.arr
                       ELSE PythonRefine(engine.fallback_mix, alpha_arr,
                                         base_arr, aggressiveness)
      IN  IF cpp.ret = "raise"
          THEN [raised |-> TRUE, weights |-> <<>>, latency_ms |-> "None",
                source |-> "none", timestamp |-> timestamp, called |-> TRUE]
          ELSE [raised |-> FALSE, weights |-> ZipDict(keys, refined),
                latency_ms |-> "measured",
                source |-> IF used_cpp THEN "cpp" ELSE "python-fallback",
                timestamp |-> timestamp, called |-> cpp.called]

-----------------------------------------------------------------------------
(* run_multifactor_strategy: configuration and inputs *)

\* the columns of factor_mat (lines 253-268)
FactorColumns ==
    {"momentum_60d", "price_volatility", "market_cap", "pe_ratio", "roe"}

\* factor_weights of a configuration: None, or the dict that was given
NoFactorWeights == [given |-> FALSE, map |-> <<>>]
GivenFactorWeights(map) == [given |-> TRUE, map |-> map]

\* the dict get_factor_weights returns when none was given (lines 54-65)
DefaultFactorWeights ==
    [f \in FactorColumns |->
        IF f = "momentum_60d" THEN Q(3, 10)
        ELSE IF f = "pe_ratio" THEN Q(-1, 5)
        ELSE IF f = "roe" THEN Q(1, 5)
        ELSE IF f = "price_volatility" THEN Q(-3, 20)
        ELSE Q(3, 20)]

\* get_factor_weights without the test of line 52: the given dict is ignored
GetFactorWeightsAlwaysDefault(config) == DefaultFactorWeights

\* MultiFactorConfig.get_factor_weights
GetFactorWeights(config) ==
    IF config.factor_weights.given THEN config.factor_weights.map
    ELSE DefaultFactorWeights

\* factor_weights dicts a caller gives: the momentum factor alone, a key
\* that is no column of the factor matrix, and a weight that is NaN
MomentumOnly == GivenFactorWeights([f \in {"momentum_60d"} |-> R(1)])
NoMatchingFactor == GivenFactorWeights([f \in {"momentum"} |-> R(1)])
NonFiniteWeight == GivenFactorWeights([f \in {"momentum_60d"} |-> NaN])

\* MultiFactorConfig: the fields a run reads, the others at their defaults
MultiFactorConfig(lookback_days, top_n, liquidity_buffer, factor_weights) ==
    [lookback_days           |-> lookback_days,
     top_n                   |-> top_n,
     commission_rate         |-> Q(1, 1000),
     factor_weights          |-> factor_weights,
     slippage_bps            |-> R(2),
     impact_coefficient      |-> Q(1, 20),
     max_position_per_symbol |-> Q(3, 20),
     max_portfolio_turnover  |-> Q(13, 20),
     liquidity_buffer        |-> liquidity_buffer,
     hft_aggressiveness      |-> Q(7, 20)]

\* the dataclass checks nothing: a lookback or a top_n that is not positive
\* is a configuration like any other
ConfigCases ==
    {MultiFactorConfig(1, 1, R(0), NoFactorWeights),
     MultiFactorConfig(1, 2, Q(1, 5), NoFactorWeights),
     MultiFactorConfig(2, 1, Q(1, 5), NoFactorWeights),
     MultiFactorConfig(2, 2, R(0), NoFactorWeights),
     MultiFactorConfig(1, 2, Q(1, 5), NoMatchingFactor),
     MultiFactorConfig(1, 2, Q(1, 5), NonFiniteWeight),
     MultiFactorConfig(2, 2, Q(1, 5), MomentumOnly),
     MultiFactorConfig(1, 0, Q(1, 5), NoFactorWeights),
     MultiFactorConfig(1, -1, Q(1, 5), NoFactorWeights),
     MultiFactorConfig(0, 1, Q(1, 5), NoFactorWeights)}

\* <<start_date, end_date>>
DateCases == {<<1, 2>>, <<2, 2>>, <<2, 1>>}

\* the symbols of a request, in the caller's order (the column order of the
\* price panel follows it)
SymbolCases == {<<>>, <<"B", "A">>, <<"A", "B", "C">>}

\* What yahoo_fetcher.fetch_historical_data does for a symbol:
\*   "ok"       a frame with a close column covering every date of the panel
\*   "raise"    it raises
\*   "empty"    an empty frame
\*   "noclose"  a frame without a close column
FetchKinds == {"ok", "raise", "empty", "noclose"}

FetchCases ==
    {[s \in Symbols |-> "ok"],
     [s \in Symbols |-> IF s = "A" THEN "raise" ELSE "ok"],
     [s \in Symbols |-> "raise"],
     [s \in Symbols |-> "empty"],
     [s \in Symbols |-> "noclose"],
     [s \in Symbols |-> IF s = "A" THEN "raise"
                        ELSE IF s = "B" THEN "empty" ELSE "noclose"]}

\* the engines a run is given: none, a disabled one, and enabled ones that
\* found no library, a library without the symbol, and a working library
RunEngineCases ==
    {NoEngine,
     NewEngine(<<"ok">>, FALSE, Q(7, 20)),
     NewEngine(<<"missing">>, TRUE, Q(7, 20)),
     NewEngine(<<"nosymbol">>, TRUE, Q(7, 20)),
     NewEngine(<<"missing", "ok">>, TRUE, Q(7, 20))}

-----------------------------------------------------------------------------
(* The calendar and the price panel *)

MonthOf(day) == (day - 1) \div MonthLen
\* the label pandas gives the month bin: the month's last calendar day
MonthEnd(m) == (m + 1) * MonthLen

MonthEnds == {d \in 1..MaxDay : d = MonthEnd(MonthOf(d))}

\* the ascending sequence of the elements of a set of integers
RECURSIVE SortedSeq(_)
SortedSeq(S) ==
    IF S = {} THEN <<>>
    ELSE LET m == CHOOSE x \in S : \A y \in S : x <= y
         IN  <<m>> \o SortedSeq(S \ {m})

\* the trading days first..last without the holidays
TradingDays(first, last, holidays) == SortedSeq((first..last) \ holidays)

\* the date indexes the fetcher may deliver
HolidayCases == {{}, MonthEnds} \cup {{e} : e \in MonthEnds}

IndexCases ==
    {TradingDays(first, last, holidays) :
        first \in {1}, last \in {MaxDay - 3, MaxDay}, holidays \in HolidayCases}
    \cup {TradingDays(1, MaxDay - 1, {})}

SeqToSet(s) == {s[i] : i \in DOMAIN s}

\* the series list without the `"close" not in df.columns` test of line 91
RECURSIVE SeriesListKeepsNoClose(_, _)
SeriesListKeepsNoClose(symbols, f) ==
    IF symbols = <<>> THEN <<>>
    ELSE IF f[Head(symbols)] \in {"ok", "noclose"}
         THEN <<Head(symbols)>> \o SeriesListKeepsNoClose(Tail(symbols), f)
         ELSE SeriesListKeepsNoClose(Tail(symbols), f)

\* the symbols of `symbols`, in order, whose fetch gave a close series
RECURSIVE SeriesList(_, _)
SeriesList(symbols, f) ==
    IF symbols = <<>> THEN <<>>
    ELSE IF f[Head(symbols)] = "ok"
         THEN <<Head(symbols)>> \o SeriesList(Tail(symbols), f)
         ELSE SeriesList(Tail(symbols), f)

\* _fetch_price_panel
FetchPricePanel(symbols, f, index) ==
    LET series_list == SeriesList(symbols, f)
    IN  IF series_list = <<>> THEN [columns |-> <<>>, index |-> <<>>]
        ELSE [columns |-> series_list, index |-> index]

\* price_df.empty or price_df.shape[1] == 0
PanelEmpty(df) == df.index = <<>> \/ df.columns = <<>>

\* the history test with < for <=
NotEnoughHistoryStrict(df, config) == Len(df.index) < config.lookback_days + 5

\* len(price_df) <= config.lookback_days + 5
NotEnoughHistory(df, config) == Len(df.index) <= config.lookback_days + 5

\* price_df.pct_change().dropna(): the first row has no return
ReturnsIndex(df) == IF df.index = <<>> THEN <<>> ELSE Tail(df.index)

\* price_df.resample("M").first().index: one label per month from the month
\* of the first row to the month of the last, each the month's last day
MonthlyFirst(df) ==
    IF df.index = <<>> THEN <<>>
    ELSE LET m0 == MonthOf(df.index[1])
             m1 == MonthOf(df.index[Len(df.index)])
         IN  [i \in 1..(m1 - m0 + 1) |-> MonthEnd(m0 + i - 1)]

\* [d for d in monthly_first if d in returns.index]
RECURSIVE FilterIn(_, _)
FilterIn(s, S) ==
    IF s = <<>> THEN <<>>
    ELSE IF Head(s) \in S THEN <<Head(s)>> \o FilterIn(Tail(s), S)
    ELSE FilterIn(Tail(s), S)

RebalDates(df) == FilterIn(MonthlyFirst(df), SeqToSet(ReturnsIndex(df)))

\* returns.index.get_loc(d), zero-based
GetLoc(index, d) == (CHOOSE i \in DOMAIN index : index[i] = d) - 1

\* the dates of frame.iloc[start:stop] for 0 <= start and stop <= len(frame):
\* the rows at the zero-based positions start .. stop - 1
ILocDates(index, start, stop) ==
    IF stop <= start THEN <<>>
    ELSE [i \in 1..(stop - start) |-> index[start + i]]

\* window_prices = price_df.iloc[start_loc:loc], line 240
WindowPrices(df, start_loc, loc) == ILocDates(df.index, start_loc, loc)

\* window_returns = returns.iloc[start_loc:loc], line 241
WindowReturns(index, start_loc, loc) == ILocDates(index, start_loc, loc)

-----------------------------------------------------------------------------
(* Scoring input, ranking and the weight row of one rebalance date *)

IsNaN(x) == x.d = 0 /\ x.n = 0

\* A factor column after the standardisation of lines 275-284.  The values
\* of (col - mean) / std are drawn, not computed: for three symbols a nonzero
\* std is never rational.  Each pattern has zero mean, as a z-score has.
ZPatterns == {<<1, 0, -1>>, <<-2, 1, 1>>}

\* z = 0.0 for every symbol: fewer than 3 values, or std <= 0 (lines 276-282)
NeutralColumn(columns) == [c \in SeqToSet(columns) |-> R(0)]

PatternColumn(columns, p) ==
    [c \in SeqToSet(columns) |->
        R(p[CHOOSE i \in DOMAIN columns : columns[i] = c])]

\* the standardised factor columns, with the momentum factor as mom and
\* the pe_ratio factor as pe and the other factors neutral
FactorZ(columns, mom, pe) ==
    [f \in FactorColumns |->
        IF f = "momentum_60d" THEN mom
        ELSE IF f = "pe_ratio" THEN pe
        ELSE NeutralColumn(columns)]

\* The standardised factors the window and the fundamentals may give.  With
\* fewer than 3 symbols every factor is neutral (line 276).  A window of one
\* price has momentum 0 for every symbol (line 244), so the momentum factor
\* is neutral and only a fundamental factor tells the symbols apart.
FactorCases(columns, window_prices, window_returns) ==
    IF Len(columns) < 3
    THEN {FactorZ(columns, NeutralColumn(columns), NeutralColumn(columns))}
    ELSE IF Len(window_prices) >= 2
    THEN {FactorZ(columns, PatternColumn(columns, p), NeutralColumn(columns)) :
             p \in ZPatterns}
         \cup {FactorZ(columns, PatternColumn(columns, <<1, 0, -1>>),
                       PatternColumn(columns, <<-2, 1, 1>>))}
    ELSE {FactorZ(columns, NeutralColumn(columns), PatternColumn(columns, p)) :
             p \in ZPatterns}

\* z_mat of lines 271-284: a column for every key of factor_weights that is
\* a column of factor_mat
ZMat(factor_weights, fz) ==
    [name \in (DOMAIN factor_weights) \cap FactorColumns |-> fz[name]]

\* z_mat.empty
ZMatEmpty(z_mat) == DOMAIN z_mat = {}

\* Series.fillna(0.0) on one value
FillNaValue(x) == IF IsNaN(x) THEN R(0) ELSE x

\* the weighted sum of lines 290-293
Score(z_mat, factor_weights, columns) ==
    [c \in SeqToSet(columns) |->
        RSum([f \in DOMAIN z_mat |->
                 RMul(factor_weights[f], FillNaValue(z_mat[f][c]))],
             DOMAIN z_mat)]

\* score.replace([inf, -inf], nan).dropna()
DropNonFinite(score) ==
    [c \in {x \in DOMAIN score : IsFinite(score[x])} |-> score[c]]

\* the orders sort_values(ascending=False) may give: descending by score;
\* the default quicksort is not stable, so tied symbols come in any order
RankedOrders(score) ==
    LET S == DOMAIN score
        n == Cardinality(S)
    IN  {s \in [1..n -> S] :
            /\ \A i, j \in 1..n : i # j => s[i] # s[j]
            /\ \A i, j \in 1..n : i < j => RLe(score[s[j]], score[s[i]])}

\* Series.head(n)
HeadN(s, n) ==
    IF n >= 0 THEN SubSeq(s, 1, IF n < Len(s) THEN n ELSE Len(s))
    ELSE SubSeq(s, 1, IF Len(s) + n > 0 THEN Len(s) + n ELSE 0)

Min2(a, b) == IF a < b THEN a ELSE b

ZeroRow(columns) == [c \in SeqToSet(columns) |-> R(0)]

RowSum(w) == RSum(w, DOMAIN w)
RowAbsSum(w) == RSum([c \in DOMAIN w |-> RAbs(w[c])], DOMAIN w)

\* the row without the `w = w / w.sum()` of lines 317-318
BaseRowNoRenorm(columns, selected, config) ==
    LET zero == ZeroRow(columns)
        max_weight  == RMin(config.max_position_per_symbol, R(1))
        base_weight == RMin(RDiv(R(1), R(Len(selected))), max_weight)
        w0 == [c \in DOMAIN zero |->
                 IF c \in SeqToSet(selected) THEN base_weight ELSE R(0)]
    IN  IF Len(selected) > 0
        THEN [c \in DOMAIN w0 |-> RMul(w0[c], RSub(R(1), config.liquidity_buffer))]
        ELSE zero

\* lines 312-319
BaseRow(columns, selected, config) ==
    LET zero == ZeroRow(columns)
        max_weight  == RMin(config.max_position_per_symbol, R(1))
        base_weight == RMin(RDiv(R(1), R(Len(selected))), max_weight)
        w0 == [c \in DOMAIN zero |->
                 IF c \in SeqToSet(selected) THEN base_weight ELSE R(0)]
        w1 == IF RLt(R(0), RowSum(w0))
              THEN [c \in DOMAIN w0 |-> RDiv(w0[c], RowSum(w0))] ELSE w0
    IN  IF Len(selected) > 0
        THEN [c \in DOMAIN w1 |-> RMul(w1[c], RSub(R(1), config.liquidity_buffer))]
        ELSE zero

\* pd.Series(decision.weights).reindex(w.index).fillna(0.0)
Reindex(dict, columns) ==
    [c \in SeqToSet(columns) |->
        IF c \in DOMAIN dict /\ ~IsNaN(dict[c]) THEN dict[c] ELSE R(0)]

\* lines 330-331
RenormAbs(refined) ==
    IF RLt(R(0), RowAbsSum(refined))
    THEN [c \in DOMAIN refined |-> RDiv(refined[c], RowAbsSum(refined))]
    ELSE refined

\* the behaviours of the native routine on a call with n symbols
NativePatterns ==
    {<<R(2), R(-1), R(1)>>, <<R(1), R(-1), R(0)>>, <<R(0), R(0), R(0)>>,
     <<NaN, Inf, R(1)>>}

NativeCases(n) ==
    {NativeRaise, NativeReturn(1, SubSeq(<<R(1), R(1), R(1)>>, 1, n))}
    \cup {NativeReturn(0, SubSeq(p, 1, n)) : p \in NativePatterns}

\* the routine is only reached through a resolved handle: without one there
\* is no native behaviour to draw
NativeUnused == [kind |-> "unused", status |-> 0, out |-> <<>>]

NativeCasesFor(engine, n) ==
    IF engine.decide_fn /\ n > 0 THEN NativeCases(n) ELSE {NativeUnused}

NoDecision == [made |-> FALSE]

\* a refine_weights call and what it gave
Decide(engine, timestamp, keys, alpha_vector, base_weights, aggressiveness, native) ==
    [made           |-> TRUE,
     keys           |-> keys,
     alpha_vector   |-> alpha_vector,
     base_weights   |-> base_weights,
     aggressiveness |-> aggressiveness,
     native         |-> native,
     result         |-> RefineWeights(engine, timestamp, keys, alpha_vector,
                                      base_weights, aggressiveness, native)]

-----------------------------------------------------------------------------
(* run_multifactor_strategy as a state machine *)

EmptyPanel == [columns |-> <<>>, index |-> <<>>]

\* initial_capital of a run
InitialCapital == R(100000)

RunArgs ==
    {[start_date |-> dt[1], end_date |-> dt[2], symbols |-> sy, config |-> cf,
      initial_capital |-> InitialCapital] :
        dt \in DateCases, sy \in SymbolCases, cf \in ConfigCases}

\* nothing returned yet
NoResult == [returned |-> FALSE]

\* no scoring pass set up
NoScoring == [done |-> FALSE]

IdleRun ==
    /\ fetch = [s \in Symbols |-> "unasked"]
    /\ price_df = EmptyPanel
    /\ returns_index = <<>>
    /\ rebal_dates = <<>>
    /\ ri = 0
    /\ weights = <<>>
    /\ committed = <<>>
    /\ factor_snapshots = <<>>
    /\ hft_orders = <<>>
    /\ hft_latency_ms = <<>>
    /\ hft_cpp_hits = 0
    /\ turnover = <<>>
    /\ trading_cost = <<>>
    /\ asset_returns = <<>>
    /\ port_ret = <<>>
    /\ ic_records = <<>>
    /\ refine_calls = <<>>
    /\ run_result = NoResult
    /\ outcome = "none"

Init ==
    /\ hft_engine \in RunEngineCases
    /\ decision = NoDecision
    /\ pc = "start"
    /\ args \in RunArgs
    /\ IdleRun
    /\ scoring = NoScoring
    /\ calls = <<>>

\* the date test with > for >=
DatesRejectedOnlyAfter(start_date, end_date) == start_date > end_date

\* start_date >= end_date of line 197
DatesRejected(start_date, end_date) == start_date >= end_date

\* lines 188-198
ValidateDates ==
    /\ pc = "start"
    /\ IF DatesRejected(args.start_date, args.end_date)
       THEN pc' = "done" /\ outcome' = "ValueError"
       ELSE pc' = "fetch" /\ outcome' = outcome
    /\ UNCHANGED <<hft_engine, decision, args, fetch, price_df, returns_index,
                   rebal_dates, ri, weights, committed, factor_snapshots,
                   hft_orders, hft_latency_ms, hft_cpp_hits, turnover, trading_cost, asset_returns, port_ret, ic_records,
                   refine_calls, run_result, scoring, calls>>

\* lines 200-204
FetchPanel ==
    /\ pc = "fetch"
    /\ \E f \in FetchCases, index \in IndexCases :
          /\ fetch' = f
          /\ price_df' = FetchPricePanel(args.symbols, f, index)
    /\ IF PanelEmpty(price_df')
       THEN pc' = "done" /\ outcome' = "empty"
       ELSE pc' = "history" /\ outcome' = outcome
    /\ UNCHANGED <<hft_engine, decision, args, returns_index, rebal_dates, ri,
                   weights, committed, factor_snapshots, hft_orders,
                   hft_latency_ms, hft_cpp_hits, turnover, trading_cost, asset_returns, port_ret, ic_records,
                   refine_calls, run_result, scoring, calls>>

\* pd.DataFrame(0.0, index=returns.index, columns=returns.columns), line 232
InitialWeights(index, columns) ==
    [t \in 0..(Len(index) - 1) |-> ZeroRow(columns)]

\* lines 206-232
CheckHistory ==
    /\ pc = "history"
    /\ IF NotEnoughHistory(price_df, args.config)
       THEN /\ pc' = "done" /\ outcome' = "empty"
            /\ UNCHANGED <<returns_index, rebal_dates, weights>>
       ELSE /\ returns_index' = ReturnsIndex(price_df)
            /\ rebal_dates' = RebalDates(price_df)
            /\ IF Len(rebal_dates') = 0
               THEN pc' = "done" /\ outcome' = "empty" /\ weights' = weights
               ELSE /\ pc' = "loop" /\ outcome' = outcome
                    /\ weights' = InitialWeights(returns_index', price_df.columns)
    /\ UNCHANGED <<hft_engine, decision, args, fetch, price_df, ri, committed,
                   factor_snapshots, hft_orders, hft_latency_ms, hft_cpp_hits, turnover, trading_cost, asset_returns, port_ret, ic_records,
                   refine_calls, run_result, scoring, calls>>

\* the date is left by a `continue`: nothing but the loop position changes
SkipDate ==
    /\ ri' = ri + 1
    /\ UNCHANGED <<hft_engine, decision, pc, args, fetch, price_df,
                   returns_index, rebal_dates, weights, committed,
                   factor_snapshots, hft_orders, hft_latency_ms, hft_cpp_hits,
                   turnover, trading_cost, asset_returns, port_ret, ic_records,
                   refine_calls, run_result, scoring, calls, outcome>>

Max2(a, b) == IF a > b THEN a ELSE b

\* future_horizon of line 348
FutureHorizon(config) == Max2(5, config.lookback_days \div 3)

\* future_end of line 349
FutureEnd(config, n_returns, loc) == Min2(n_returns, loc + FutureHorizon(config))

\* the test of line 350 with any forward day accepted
HorizonAvailableAnyDay(config, n_returns, loc) == FutureEnd(config, n_returns, loc) - loc >= 1

\* the test of line 350
HorizonAvailable(config, n_returns, loc) == FutureEnd(config, n_returns, loc) - loc >= 5

\* The values Series.corr(method="spearman") may give for a score and the
\* forward returns.  The forward returns are not modelled, so the value is
\* drawn; NaN stands for a coefficient that is not defined because one
\* side is constant.
ICValues == {NaN, Q(1, 2), R(-1)}

ScoreConstant(score) == \A a, b \in DOMAIN score : score[a] = score[b]

\* `returns` has no missing value (line 215 drops them), so every ranked
\* symbol has a forward return and `aligned` holds the ranked symbols; a
\* run draws the coefficient as undefined or as one value
ICCases(config, n_returns, loc, score) ==
    IF HorizonAvailable(config, n_returns, loc) /\ Cardinality(DOMAIN score) >= 3
    THEN IF ScoreConstant(score) THEN {NaN} ELSE {NaN, Q(1, 2)}
    ELSE {NaN}

\* lines 347-360: ic_records after the step of date d.  The entry also keeps
\* the positions of `returns` that returns.iloc[loc:future_end] took and
\* len(aligned).
RecordIC(records, config, n_returns, d, loc, ranked, ic) ==
    IF /\ HorizonAvailable(config, n_returns, loc)
       /\ Len(ranked) >= 3
       /\ ~IsNaN(ic)
    THEN Append(records, [date |-> d, ic |-> ic, first |-> loc,
                          stop |-> FutureEnd(config, n_returns, loc),
                          aligned |-> Len(ranked)])
    ELSE records

\* lines 299-362 for a non-empty score and one order of its ranking
RankAndCommit(d, loc, window, z_mat, score, ranked, native, ic) ==
    LET config   == args.config
        top_n    == Min2(config.top_n, Len(ranked))
        selected == HeadN(ranked, top_n)
        w        == BaseRow(price_df.columns, selected, config)
        use_hft  == hft_engine.present /\ Len(ranked) > 0
        dec      == Decide(hft_engine, d, ranked, score, w,
                           config.hft_aggressiveness, native)
        refined  == RenormAbs(Reindex(dec.result.weights, price_df.columns))
        row      == IF use_hft THEN refined ELSE w
    IN  /\ factor_snapshots' = Append(factor_snapshots,
              [date |-> d, selected |-> selected, scores |-> score])
        /\ refine_calls' = IF use_hft THEN Append(refine_calls, d)
                           ELSE refine_calls
        /\ IF use_hft /\ dec.result.raised
           THEN \* the exception of the native call leaves the run
                /\ decision' = dec
                /\ pc' = "done" /\ outcome' = "NativeFault"
                /\ UNCHANGED <<ri, weights, committed, hft_orders,
                               hft_latency_ms, hft_cpp_hits, ic_records>>
           ELSE /\ decision' = IF use_hft THEN dec ELSE decision
                /\ hft_latency_ms' =
                      IF use_hft /\ dec.result.latency_ms # "None"
                      THEN Append(hft_latency_ms, dec.result.latency_ms)
                      ELSE hft_latency_ms
                /\ hft_cpp_hits' =
                      IF use_hft /\ dec.result.source = "cpp"
                      THEN hft_cpp_hits + 1 ELSE hft_cpp_hits
                /\ hft_orders' =
                      IF use_hft
                      THEN Append(hft_orders,
                             [timestamp  |-> dec.result.timestamp,
                              engine     |-> dec.result.source,
                              latency_ms |-> dec.result.latency_ms])
                      ELSE hft_orders
                /\ ic_records' = RecordIC(ic_records, config,
                                           Len(returns_index), d, loc, ranked, ic)
                /\ weights' = [weights EXCEPT ![loc] = row]
                /\ committed' = Append(committed,
                      [date |-> d, loc |-> loc, row |-> row,
                       selected |-> selected, refined |-> use_hft,
                       ranked |-> ranked, scores |-> score, z_mat |-> z_mat,
                       window_prices |-> window.prices,
                       window_returns |-> window.returns])
                /\ ri' = ri + 1
                /\ UNCHANGED <<pc, outcome>>
        /\ UNCHANGED <<hft_engine, args, fetch, price_df, returns_index,
                       rebal_dates, turnover, trading_cost, asset_returns,
                       port_ret, run_result, scoring, calls>>

\* window_prices.iloc[-1] on a window without rows raises IndexError
\* (line 244), which leaves the run
RaiseIndexError ==
    /\ pc' = "done"
    /\ outcome' = "IndexError"
    /\ UNCHANGED <<hft_engine, decision, args, fetch, price_df, returns_index,
                   rebal_dates, ri, weights, committed, factor_snapshots,
                   hft_orders, hft_latency_ms, hft_cpp_hits, turnover, trading_cost, asset_returns, port_ret, ic_records,
                   refine_calls, run_result, scoring, calls>>

\* lines 252-362 for the window of one rebalance date
ScoreAndCommit(d, loc, window) ==
    LET factor_weights == GetFactorWeights(args.config)
    IN  \E fz \in FactorCases(price_df.columns, window.prices, window.returns) :
          LET z_mat == ZMat(factor_weights, fz)
              score == DropNonFinite(Score(z_mat, factor_weights, price_df.columns))
          IN  IF ZMatEmpty(z_mat) \/ DOMAIN score = {} THEN SkipDate
              ELSE \E ranked \in RankedOrders(score),
                      native \in NativeCasesFor(hft_engine,
                                                Cardinality(DOMAIN score)),
                      ic \in ICCases(args.config, Len(returns_index), loc, score) :
                     RankAndCommit(d, loc, window, z_mat, score, ranked, native, ic)

\* one pass of the loop of lines 234-362
ProcessRebalance ==
    /\ pc = "loop"
    /\ ri < Len(rebal_dates)
    /\ LET d         == rebal_dates[ri + 1]
           loc       == GetLoc(returns_index, d)
           start_loc == loc - args.config.lookback_days
           window    == [prices  |-> WindowPrices(price_df, start_loc, loc),
                         returns |-> WindowReturns(returns_index, start_loc, loc)]
       IN  IF start_loc <= 0 THEN SkipDate
           ELSE IF window.prices = <<>> THEN RaiseIndexError
           ELSE ScoreAndCommit(d, loc, window)

\* (weights.sum(axis=1) == 0).all()
AllRowsSumZero(w) == \A t \in DOMAIN w : RowSum(w[t]) = R(0)

\* DataFrame.ffill(): a NaN cell takes the last value above it that is not NaN
RECURSIVE FFillCell(_, _, _)
FFillCell(w, t, c) ==
    IF ~IsNaN(w[t][c]) \/ t = 0 THEN w[t][c] ELSE FFillCell(w, t - 1, c)

FFill(w) == [t \in DOMAIN w |-> [c \in DOMAIN w[t] |-> FFillCell(w, t, c)]]

\* the matrix used without its one-period shift
NoShift(w) == w

\* DataFrame.shift(1): row t takes row t - 1, the first row is NaN
Shift1(w) ==
    [t \in DOMAIN w |-> IF t = 0 THEN [c \in DOMAIN w[t] |-> NaN] ELSE w[t - 1]]

\* DataFrame.fillna(0.0)
FillNa0(w) ==
    [t \in DOMAIN w |-> [c \in DOMAIN w[t] |->
        IF IsNaN(w[t][c]) THEN R(0) ELSE w[t][c]]]

\* weights.sort_index().ffill().shift(1).fillna(0.0), line 370; the index
\* of the matrix is returns.index, already ascending
LaggedWeights(w) == FillNa0(Shift1(FFill(w)))

\* Series.clip(upper=u)
ClipUpper(x, upper) == RMin(x, upper)

\* the turnover without its cap
TurnoverUnclipped(w, config) ==
    [t \in DOMAIN w |->
        IF t = 0 THEN R(0)
        ELSE RSum([c \in DOMAIN w[t] |->
                      RAbs(RSub(w[t][c], w[t - 1][c]))], DOMAIN w[t])]

\* weights.diff().abs().sum(axis=1).clip(upper=max_portfolio_turnover),
\* line 374; the first row of diff() is NaN and sums to 0
Turnover(w, config) ==
    [t \in DOMAIN w |->
        ClipUpper(IF t = 0 THEN R(0)
                  ELSE RSum([c \in DOMAIN w[t] |->
                                RAbs(RSub(w[t][c], w[t - 1][c]))], DOMAIN w[t]),
                  config.max_portfolio_turnover)]

\* the cost with the impact term subtracted
TradingCostImpactRebate(config, x) ==
    RSub(RAdd(RMul(config.commission_rate, x),
              RMul(RDiv(config.slippage_bps, R(10000)), x)),
         RMul(config.impact_coefficient, RMul(x, x)))

\* the cost with a fee that is charged on every date, traded or not
TradingCostWithFixedFee(config, x) ==
    RAdd(RAdd(RAdd(RMul(config.commission_rate, x),
                   RMul(RDiv(config.slippage_bps, R(10000)), x)),
              RMul(config.impact_coefficient, RMul(x, x))),
         config.commission_rate)

\* trading_cost of lines 375-379 for the turnover x
TradingCost(config, x) ==
    RAdd(RAdd(RMul(config.commission_rate, x),
              RMul(RDiv(config.slippage_bps, R(10000)), x)),
         RMul(config.impact_coefficient, RMul(x, x)))

\* The values `returns` may hold: flat prices, and prices that move.  They
\* are read first at line 373 and are drawn there.
ReturnCases(n, columns) ==
    {[t \in 0..(n - 1) |-> [c \in SeqToSet(columns) |-> R(0)]],
     [t \in 0..(n - 1) |-> [c \in SeqToSet(columns) |->
         IF c = "A" THEN (IF t % 2 = 0 THEN Q(1, 10) ELSE Q(-1, 20))
         ELSE Q(1, 20)]]}

\* (weights * returns).sum(axis=1), line 373
GrossRet(w, r) ==
    [t \in DOMAIN w |->
        RSum([c \in DOMAIN w[t] |-> RMul(w[t][c], r[t][c])], DOMAIN w[t])]

\* weights.diff().abs().sum(axis=1): the first row of diff() is NaN and
\* sums to 0
DiffAbsSum(w) ==
    [t \in DOMAIN w |->
        IF t = 0 THEN R(0)
        ELSE RSum([c \in DOMAIN w[t] |-> RAbs(RSub(w[t][c], w[t - 1][c]))],
                  DOMAIN w[t])]

\* port_ret = gross_ret - trading_cost, line 380
PortRet(gross_ret, cost) ==
    [t \in DOMAIN gross_ret |-> RSub(gross_ret[t], cost[t])]

\* The running product xs[0] * ... * xs[t], kept as the list of its factors
\* in order.  A factor 1.0 changes no product and is left out, so the empty
\* list is the product 1.
RECURSIVE Factors(_, _)
Factors(xs, t) ==
    IF t < 0 THEN <<>>
    ELSE IF xs[t] = R(1) THEN Factors(xs, t - 1)
    ELSE Append(Factors(xs, t - 1), xs[t])

\* initial_capital * (1.0 + port_ret).cumprod(), line 386
Equity(initial_capital, net) ==
    [t \in DOMAIN net |->
        [capital |-> initial_capital,
         growth  |-> Factors([s \in DOMAIN net |-> RAdd(R(1), net[s])], t)]]

\* equity.iloc[-1] / equity.iloc[0] - 1.0, line 393: the two values of the
\* quotient
TotalReturn(equity) ==
    [last  |-> equity[Cardinality(DOMAIN equity) - 1],
     first |-> equity[0]]

\* vol > 0 of lines 396-397: more than one period, and a standard deviation
\* above 0, which a series has exactly when two of its values differ
VolPositive(net) ==
    /\ Cardinality(DOMAIN net) > 1
    /\ \E a, b \in DOMAIN net : net[a] # net[b]

\* sharpe_ratio of line 397; the quotient is kept by its operands
SharpeRatio(total_return, net) ==
    IF VolPositive(net)
    THEN [zero |-> FALSE, total_return |-> total_return, port_ret |-> net]
    ELSE [zero |-> TRUE]

\* 1e-6 of line 406
Epsilon == Q(1, 1000000)

\* num_rebals of line 406, on the lagged matrix
NumRebals(w) ==
    Cardinality({t \in DOMAIN w : RLt(Epsilon, DiffAbsSum(w)[t])})

\* total_trades of line 407
TotalTrades(w, config) == NumRebals(w) * config.top_n * 2

\* ic_series of lines 465-469: the dates of the records are distinct, so the
\* series has one value per record
ICSeries(records) == [i \in DOMAIN records |-> records[i].ic]

\* ic_ir without the test of the standard deviation
IcIrUnguarded(ic_series) ==
    IF Len(ic_series) > 0
    THEN [none |-> FALSE, mean |-> Mean(ic_series),
          variance |-> Variance(ic_series),
          zero_denominator |-> Variance(ic_series) = R(0)]
    ELSE [none |-> TRUE]

\* ic_ir of lines 472-474: mean / std * sqrt(12), kept by mean and variance
IcIr(ic_series) ==
    IF Len(ic_series) > 0 /\ RLt(R(0), Variance(ic_series))
    THEN [none |-> FALSE, mean |-> Mean(ic_series),
          variance |-> Variance(ic_series), zero_denominator |-> FALSE]
    ELSE [none |-> TRUE]

\* factor_metrics of lines 470-478
FactorMetrics(records) ==
    LET ic_series == ICSeries(records)
    IN  [ic_mean |-> IF Len(ic_series) > 0
                     THEN [none |-> FALSE, value |-> Mean(ic_series)]
                     ELSE [none |-> TRUE],
         ic_ir   |-> IcIr(ic_series),
         samples |-> Len(ic_series)]

\* decision_info that keeps the orders of the native routine only
DecisionInfoNativeOrdersOnly(orders, latency_ms, cpp_hits) ==
    IF Len(orders) > 0
    THEN [none |-> FALSE,
          orders |-> SelectSeq(orders, LAMBDA o : o.engine = "cpp"),
          latency_ms_avg |-> IF Len(latency_ms) > 0 THEN "measured" ELSE "None",
          latency_ms_p95 |-> IF Len(latency_ms) > 1 THEN "measured" ELSE "None",
          cpp_hit_ratio  |-> Q(cpp_hits, Len(orders))]
    ELSE [none |-> TRUE]

\* decision_info of lines 480-489
DecisionInfo(orders, latency_ms, cpp_hits) ==
    IF Len(orders) > 0
    THEN [none |-> FALSE,
          orders |-> orders,
          latency_ms_avg |-> IF Len(latency_ms) > 0 THEN "measured" ELSE "None",
          latency_ms_p95 |-> IF Len(latency_ms) > 1 THEN "measured" ELSE "None",
          cpp_hit_ratio  |-> Q(cpp_hits, Len(orders))]
    ELSE [none |-> TRUE]

\* the dict of lines 491-503
ResultDict(equity, net, lagged, config) ==
    [returned        |-> TRUE,
     total_return    |-> TotalReturn(equity),
     sharpe_ratio    |-> SharpeRatio(TotalReturn(equity), net),
     total_trades    |-> TotalTrades(lagged, config),
     equity_curve    |-> equity,
     factor_metrics  |-> FactorMetrics(ic_records),
     decision_engine |-> DecisionInfo(hft_orders, hft_latency_ms, hft_cpp_hits)]

\* lines 364-503
Finalize ==
    /\ pc = "loop"
    /\ ri = Len(rebal_dates)
    /\ pc' = "done"
    /\ IF AllRowsSumZero(weights)
       THEN /\ outcome' = "empty" /\ weights' = weights
            /\ UNCHANGED <<turnover, trading_cost, asset_returns, port_ret, run_result>>
       ELSE /\ outcome' = "ok" /\ weights' = LaggedWeights(weights)
            /\ asset_returns' \in ReturnCases(Len(returns_index), price_df.columns)
            /\ turnover' = Turnover(weights', args.config)
            /\ trading_cost' =
                  [t \in DOMAIN turnover' |-> TradingCost(args.config, turnover'[t])]
            /\ port_ret' = PortRet(GrossRet(weights', asset_returns'), trading_cost')
            /\ run_result' = ResultDict(Equity(args.initial_capital, port_ret'),
                                    port_ret', weights', args.config)
    /\ UNCHANGED <<hft_engine, decision, args, fetch, price_df, returns_index,
                   rebal_dates, ri, committed, factor_snapshots, hft_orders,
                   hft_latency_ms, hft_cpp_hits, ic_records, refine_calls,
                   scoring, calls>>

Next == ValidateDates \/ FetchPanel \/ CheckHistory \/ ProcessRebalance \/ Finalize

Spec == Init /\ [][Next]_vars

-----------------------------------------------------------------------------
(* refine_weights called on an engine directly *)

FallbackMixCases == {Q(7, 20), Q(9, 10)}

RECURSIVE PathLists(_)
PathLists(n) ==
    IF n = 0 THEN {<<>>}
    ELSE LET shorter == PathLists(n - 1)
         IN  shorter \cup {Append(p, k) : p \in {q \in shorter : Len(q) = n - 1},
                                           k \in PathKinds}

EngineCases ==
    {NewEngine(paths, enabled, fm) :
        paths \in PathLists(MaxPaths) \ {<<>>},
        enabled \in BOOLEAN, fm \in FallbackMixCases}

\* alpha vectors and base weights of a direct call, as dicts
AlphaCases ==
    {<<>>,
     [s \in {"A"} |-> R(1)],
     [s \in {"A", "B"} |-> IF s = "A" THEN R(1) ELSE R(-1)],
     [s \in {"A", "B"} |-> R(0)],
     [s \in Symbols |-> IF s = "A" THEN R(2) ELSE IF s = "B" THEN R(1) ELSE R(0)]}

BaseCases ==
    {<<>>,
     [s \in Symbols |-> R(0)],
     [s \in Symbols |-> IF s = "C" THEN R(0) ELSE Q(1, 2)],
     [s \in {"A", "D"} |-> IF s = "A" THEN Q(4, 5) ELSE Q(1, 5)]}

AggressivenessCases == {R(0), Q(7, 20), R(1)}

InitEngine ==
    /\ hft_engine \in EngineCases
    /\ decision = NoDecision
    /\ pc = "idle"
    /\ args = [start_date |-> 1, end_date |-> 2, symbols |-> <<>>,
               config |-> MultiFactorConfig(1, 1, R(0), NoFactorWeights)]
    /\ IdleRun
    /\ scoring = NoScoring
    /\ calls = <<>>

\* a caller invokes refine_weights; the engine is not changed by a call, so
\* one call per behaviour shows every result the engine can give
RefineCall ==
    /\ ~decision.made
    /\ \E alpha \in AlphaCases, base \in BaseCases,
          aggr \in AggressivenessCases :
         \E keys \in RankedOrders(alpha) :
           \E native \in NativeCasesFor(hft_engine, Len(keys)) :
             decision' = Decide(hft_engine, 0, keys, alpha, base, aggr, native)
    /\ UNCHANGED hft_engine
    /\ UNCHANGED runVars

NextEngine == RefineCall

SpecEngine == InitEngine /\ [][NextEngine]_vars

-----------------------------------------------------------------------------
(* The trading cost of lines 375-379 as a function of turnover *)

CommissionCases == {R(0), Q(1, 1000)}
SlippageBpsCases == {R(0), R(2), R(50)}
ImpactCases == {R(0), Q(1, 20), R(1)}

\* turnover is a sum of absolute values, clipped from above: never negative
TurnoverCases == {R(0), Q(1, 10), Q(13, 20), R(1), R(2)}

InitCost ==
    /\ hft_engine = NoEngine
    /\ decision = NoDecision
    /\ pc = "cost"
    /\ \E c \in CommissionCases, b \in SlippageBpsCases, k \in ImpactCases :
          args = [start_date |-> 1, end_date |-> 2, symbols |-> <<>>,
                  config |-> [MultiFactorConfig(1, 1, R(0), NoFactorWeights)
                                 EXCEPT !.commission_rate = c,
                                        !.slippage_bps = b,
                                        !.impact_coefficient = k]]
    /\ IdleRun
    /\ scoring = NoScoring
    /\ calls = <<>>

\* the cost of two turnover values under the same cost parameters
CostCall ==
    /\ pc = "cost"
    /\ turnover = <<>>
    /\ \E a, b \in TurnoverCases :
          /\ turnover' = <<a, b>>
          /\ trading_cost' = <<TradingCost(args.config, a),
                               TradingCost(args.config, b)>>
    /\ UNCHANGED <<hft_engine, decision, pc, args, fetch, price_df,
                   returns_index, rebal_dates, ri, weights, committed,
                   factor_snapshots, hft_orders, hft_latency_ms, hft_cpp_hits, asset_returns, port_ret, ic_records,
                   refine_calls, run_result, scoring, calls,
                   outcome>>

NextCost == CostCall

SpecCost == InitCost /\ [][NextCost]_vars

-----------------------------------------------------------------------------
(* One scoring pass of lines 270-297 on a given factor matrix *)

\* the symbols of the cross-section that is scored
ScoreSymbols == <<"A", "B", "C", "D", "E">>

\* the square root of a perfect square
ISqrt(n) == CHOOSE k \in 0..n : k * k = n

\* the square root of a rational that is the square of a rational
RSqrt(x) == Q(ISqrt(x.n), ISqrt(x.d))

\* col.notna()
NotNa(col) == {c \in DOMAIN col : ~IsNaN(col[c])}

\* col.mean(): missing values are skipped, NaN when none is left
ColMean(col) == RDiv(RSum(col, NotNa(col)), R(Cardinality(NotNa(col))))

\* col.std(ddof=0)
ColStd(col) ==
    LET m == ColMean(col)
        sq == [c \in NotNa(col) |-> RMul(RSub(col[c], m), RSub(col[c], m))]
    IN  IF NotNa(col) = {} THEN NaN
        ELSE RSqrt(RDiv(RSum(sq, NotNa(col)), R(Cardinality(NotNa(col)))))

\* (col - mean) / std
Standardised(col) ==
    [c \in DOMAIN col |-> RDiv(RSub(col[c], ColMean(col)), ColStd(col))]

\* the standardisation without the test of line 276
ZScoreColumnNoMinCount(col) ==
    IF RLe(ColStd(col), R(0)) THEN [c \in DOMAIN col |-> R(0)]
    ELSE Standardised(col)

\* lines 275-284 for one column of factor_mat
ZScoreColumn(col) ==
    IF Cardinality(NotNa(col)) < 3 THEN [c \in DOMAIN col |-> R(0)]
    ELSE IF RLe(ColStd(col), R(0)) THEN [c \in DOMAIN col |-> R(0)]
    ELSE Standardised(col)

ColumnOf(values) == [c \in SeqToSet(ScoreSymbols) |->
    values[CHOOSE i \in DOMAIN ScoreSymbols : ScoreSymbols[i] = c]]

\* factor columns: without a value, with two values, constant, and with a
\* spread (one of them with a missing value); the spreads have a rational
\* standard deviation
ColumnCases ==
    {ColumnOf(<<NaN, NaN, NaN, NaN, NaN>>),
     ColumnOf(<<R(1), R(-1), NaN, NaN, NaN>>),
     ColumnOf(<<R(5), R(5), R(5), R(5), R(5)>>),
     ColumnOf(<<R(2), R(2), R(0), R(0), NaN>>),
     ColumnOf(<<R(1), R(1), R(1), R(1), R(-4)>>),
     ColumnOf(<<NaN, R(0), R(4), R(4), R(0)>>)}

\* factor_mat of lines 253-268: momentum and pe_ratio as given, the other
\* factors without a value
FactorMat(mom, pe) ==
    [f \in FactorColumns |->
        IF f = "momentum_60d" THEN mom
        ELSE IF f = "pe_ratio" THEN pe
        ELSE ColumnOf(<<NaN, NaN, NaN, NaN, NaN>>)]

ScoringWeightCases == {NoFactorWeights, MomentumOnly, NonFiniteWeight}

InitScore ==
    /\ hft_engine = NoEngine
    /\ decision = NoDecision
    /\ pc = "score"
    /\ \E fw \in ScoringWeightCases :
          args = [start_date |-> 1, end_date |-> 2, symbols |-> ScoreSymbols,
                  config |-> MultiFactorConfig(1, 1, R(0), fw)]
    /\ IdleRun
    /\ \E mom \in ColumnCases, pe \in ColumnCases :
          scoring = [done |-> FALSE, factor_mat |-> FactorMat(mom, pe)]
    /\ calls = <<>>

\* lines 270-297: z_mat, the combined score, and the score after
\* replace([inf, -inf], nan).dropna(), whose index is the ranked set
ScorePass ==
    /\ pc = "score"
    /\ ~scoring.done
    /\ LET factor_weights == GetFactorWeights(args.config)
           fz    == [f \in FactorColumns |-> ZScoreColumn(scoring.factor_mat[f])]
           z_mat == ZMat(factor_weights, fz)
           combined == Score(z_mat, factor_weights, ScoreSymbols)
       IN  scoring' = [done       |-> TRUE,
                       factor_mat |-> scoring.factor_mat,
                       z_mat      |-> z_mat,
                       combined   |-> combined,
                       score      |-> DropNonFinite(combined)]
    /\ UNCHANGED <<hft_engine, decision, pc, args, fetch, price_df,
                   returns_index, rebal_dates, ri, weights, committed,
                   factor_snapshots, hft_orders, hft_latency_ms, hft_cpp_hits,
                   turnover, trading_cost, asset_returns, port_ret, ic_records,
                   refine_calls, run_result, calls, outcome>>

NextScore == ScorePass

SpecScore == InitScore /\ [][NextScore]_vars

-----------------------------------------------------------------------------
(* The IC bookkeeping of lines 347-360 and 465-478 on longer histories *)

\* lookback_days of the configurations: horizons 5, 6 and 7
ICLookbackCases == {1, 18, 21}

\* len(returns) for a lookback: line 207 lets a run pass with more than
\* lookback_days + 5 prices, which are lookback_days + 5 returns or more
ReturnLenCases(lookback_days) ==
    {lookback_days + 5, lookback_days + 6, lookback_days + 8}

\* rebalance dates that pass the test of line 237, in ascending order
ICRebalCases(index, lookback_days) ==
    LET ok == {d \in SeqToSet(index) : GetLoc(index, d) - lookback_days > 0}
    IN  {<<d>> : d \in ok} \cup {<<p[1], p[2]>> : p \in {q \in ok \X ok : q[1] < q[2]}}

\* the loop has reached its first date; the panel has the symbols A, B, C
\* and a price on every day
InitIC ==
    /\ hft_engine = NoEngine
    /\ decision = NoDecision
    /\ pc = "ic"
    /\ \E lookback_days \in ICLookbackCases :
          /\ args = [start_date |-> 1, end_date |-> 2, symbols |-> <<"A", "B", "C">>,
                     config |-> MultiFactorConfig(lookback_days, 1, R(0), NoFactorWeights)]
          /\ \E n \in ReturnLenCases(lookback_days) :
                /\ price_df = [columns |-> <<"A", "B", "C">>,
                               index |-> [i \in 1..(n + 1) |-> i]]
                /\ returns_index = ReturnsIndex(price_df)
                /\ rebal_dates \in ICRebalCases(returns_index, lookback_days)
    /\ fetch = [s \in Symbols |-> "ok"]
    /\ ri = 0
    /\ weights = <<>>
    /\ committed = <<>>
    /\ factor_snapshots = <<>>
    /\ hft_orders = <<>>
    /\ hft_latency_ms = <<>>
    /\ hft_cpp_hits = 0
    /\ turnover = <<>>
    /\ trading_cost = <<>>
    /\ asset_returns = <<>>
    /\ port_ret = <<>>
    /\ ic_records = <<>>
    /\ refine_calls = <<>>
    /\ run_result = NoResult
    /\ scoring = NoScoring
    /\ calls = <<>>
    /\ outcome = "none"

\* lines 347-360 for the next rebalance date: the ranking holds two or three
\* symbols and the coefficient is drawn
ICStep ==
    /\ pc = "ic"
    /\ ri < Len(rebal_dates)
    /\ LET d   == rebal_dates[ri + 1]
           loc == GetLoc(returns_index, d)
       IN  \E m \in {2, 3}, ic \in ICValues :
              ic_records' = RecordIC(ic_records, args.config, Len(returns_index),
                                     d, loc, SubSeq(<<"A", "B", "C">>, 1, m), ic)
    /\ ri' = ri + 1
    /\ UNCHANGED <<hft_engine, decision, pc, args, fetch, price_df,
                   returns_index, rebal_dates, weights, committed,
                   factor_snapshots, hft_orders, hft_latency_ms, hft_cpp_hits,
                   turnover, trading_cost, asset_returns, port_ret,
                   refine_calls, run_result, scoring, calls, outcome>>

\* lines 465-478 after the last date
ICSummary ==
    /\ pc = "ic"
    /\ ri = Len(rebal_dates)
    /\ pc' = "done"
    /\ run_result' = [returned |-> TRUE,
                      factor_metrics |-> FactorMetrics(ic_records)]
    /\ UNCHANGED <<hft_engine, decision, args, fetch, price_df, returns_index,
                   rebal_dates, ri, weights, committed, factor_snapshots,
                   hft_orders, hft_latency_ms, hft_cpp_hits, turnover,
                   trading_cost, asset_returns, port_ret, ic_records,
                   refine_calls, scoring, calls, outcome>>

NextIC == ICStep \/ ICSummary

SpecIC == InitIC /\ [][NextIC]_vars

-----------------------------------------------------------------------------
(* Two callers inside refine_weights of one engine at the same time *)

Callers == {1, 2}

\* the arguments of a call: no alpha, two symbols, three symbols
CallArgCases ==
    {[keys |-> <<>>, alpha_vector |-> <<>>,
      base_weights |-> [s \in {"A"} |-> R(1)]],
     [keys |-> <<"A", "B">>,
      alpha_vector |-> [s \in {"A", "B"} |-> IF s = "A" THEN R(1) ELSE R(-1)],
      base_weights |-> [s \in {"A", "B"} |-> Q(1, 2)]],
     [keys |-> <<"C", "A", "B">>,
      alpha_vector |-> [s \in Symbols |->
          IF s = "A" THEN R(1) ELSE IF s = "B" THEN R(0) ELSE R(2)],
      base_weights |-> [s \in {"C"} |-> R(1)]]}

NoCpp == [ret |-> "None", arr |-> <<>>, called |-> FALSE]

\* a call that has not entered refine_weights; native is what the native
\* routine does if this call reaches it
NewCall(t, a, native) ==
    [pc |-> "start", timestamp |-> t, keys |-> a.keys,
     alpha_vector |-> a.alpha_vector, base_weights |-> a.base_weights,
     aggressiveness |-> Q(7, 20), native |-> native,
     alpha_arr |-> <<>>, base_arr |-> <<>>, cpp |-> NoCpp,
     result |-> [raised |-> FALSE]]

InitConcurrent ==
    /\ hft_engine \in RunEngineCases \ {NoEngine}
    /\ decision = NoDecision
    /\ pc = "calls"
    /\ args = [start_date |-> 1, end_date |-> 2, symbols |-> <<>>,
               config |-> MultiFactorConfig(1, 1, R(0), NoFactorWeights)]
    /\ IdleRun
    /\ scoring = NoScoring
    /\ \E a1 \in CallArgCases, a2 \in CallArgCases :
         \E n1 \in NativeCasesFor(hft_engine, Len(a1.keys)),
            n2 \in NativeCasesFor(hft_engine, Len(a2.keys)) :
            calls = [t \in Callers |->
                        IF t = 1 THEN NewCall(1, a1, n1) ELSE NewCall(2, a2, n2)]

\* the engine after a call went through the native routine with the
\* attribute of the handle cleared when the routine reported failure
EngineDropsHandleOnFailure(engine, cpp) ==
    IF cpp.called /\ cpp.ret = "None" THEN [engine EXCEPT !.decide_fn = FALSE]
    ELSE engine

\* the engine after lines 126-131: refine_weights, _call_cpp and
\* _python_refine assign to no attribute of self
EngineAfterRefine(engine, cpp) == engine

\* lines 110-120: the guard, and the arrays of a call that goes on
CallEnter(t) ==
    LET c == calls[t]
    IN  /\ c.pc = "start"
        /\ IF ReturnsBaseUnchanged(hft_engine, c.keys)
           THEN calls' = [calls EXCEPT ![t] =
                   [c EXCEPT !.pc = "done",
                             !.result = [raised |-> FALSE, weights |-> c.base_weights,
                                         latency_ms |-> "None",
                                         source |-> "python-fallback",
                                         timestamp |-> c.timestamp,
                                         called |-> FALSE]]]
           ELSE calls' = [calls EXCEPT ![t] =
                   [c EXCEPT !.pc = "decide",
                             !.alpha_arr = [i \in DOMAIN c.keys |-> c.alpha_vector[c.keys[i]]],
                             !.base_arr = [i \in DOMAIN c.keys |->
                                              GetOrZero(c.base_weights, c.keys[i])]]]
        /\ UNCHANGED hft_engine

\* lines 126-128 and 133-140: the handle is read and the native routine
\* runs; its array is returned, its fault leaves the call, or the fallback
\* is next
CallNative(t) ==
    LET c   == calls[t]
        cpp == IF hft_engine.decide_fn
               THEN CallCpp(hft_engine.decide_fn, c.alpha_arr, c.base_arr, c.native)
               ELSE NoCpp
    IN  /\ c.pc = "decide"
        /\ calls' = [calls EXCEPT ![t] =
              IF cpp.ret = "raise"
              THEN [c EXCEPT !.pc = "done", !.cpp = cpp,
                             !.result = [raised |-> TRUE, weights |-> <<>>,
                                         latency_ms |-> "None", source |-> "none",
                                         timestamp |-> c.timestamp, called |-> TRUE]]
              ELSE IF cpp.ret = "array"
              THEN [c EXCEPT !.pc = "done", !.cpp = cpp,
                             !.result = [raised |-> FALSE,
                                         weights |-> ZipDict(c.keys, cpp.arr),
                                         latency_ms |-> "measured", source |-> "cpp",
                                         timestamp |-> c.timestamp, called |-> TRUE]]
              ELSE [c EXCEPT !.pc = "blend", !.cpp = cpp]]
        /\ hft_engine' = EngineAfterRefine(hft_engine, cpp)

\* lines 130-140: the fallback reads fallback_mix and the call returns
CallFallback(t) ==
    LET c       == calls[t]
        refined == PythonRefine(hft_engine.fallback_mix, c.alpha_arr, c.base_arr,
                                c.aggressiveness)
    IN  /\ c.pc = "blend"
        /\ calls' = [calls EXCEPT ![t] =
              [c EXCEPT !.pc = "done",
                        !.result = [raised |-> FALSE,
                                    weights |-> ZipDict(c.keys, refined),
                                    latency_ms |-> "measured",
                                    source |-> "python-fallback",
                                    timestamp |-> c.timestamp,
                                    called |-> c.cpp.called]]]
        /\ UNCHANGED hft_engine

\* one step of one caller
CallerStep(t) ==
    /\ pc = "calls"
    /\ CallEnter(t) \/ CallNative(t) \/ CallFallback(t)
    /\ UNCHANGED <<decision, pc, args, fetch, price_df, returns_index,
                   rebal_dates, ri, weights, committed, factor_snapshots,
                   hft_orders, hft_latency_ms, hft_cpp_hits, turnover,
                   trading_cost, asset_returns, port_ret, ic_records,
                   refine_calls, run_result, scoring, outcome>>

NextConcurrent == \E t \in Callers : CallerStep(t)

SpecConcurrent == InitConcurrent /\ [][NextConcurrent]_vars

-----------------------------------------------------------------------------
(* Properties *)

\* the configuration keeps the constraints a programmer must keep
ValidConfig == args.config.lookback_days >= 1 /\ args.config.top_n >= 1

RowNonNegative(w) == \A c \in DOMAIN w : RLe(R(0), w[c])
RowFinite(w) == \A c \in DOMAIN w : IsFinite(w[c])
RowIsZero(w) == \A c \in DOMAIN w : w[c] = R(0)

\* the arrays refine_weights built for the recorded call
DecisionAlphaArr == [i \in DOMAIN decision.keys |-> decision.alpha_vector[decision.keys[i]]]
DecisionBaseArr ==
    [i \in DOMAIN decision.keys |-> GetOrZero(decision.base_weights, decision.keys[i])]

\* the native routine ran and reported failure by its status or its output
NativeReportedFailure ==
    /\ decision.made
    /\ decision.result.called
    /\ decision.native.kind = "return"
    /\ (decision.native.status # 0 \/ ~SeqAllFinite(decision.native.out))

\* C1: in a run with a valid configuration (lookback_days >= 1, top_n >= 1),
\* every weight row committed by run_multifactor_strategy, and every row
\* of the final lagged weight matrix, is elementwise >= 0 and sums to <= 1,
\* with or without a refiner.
C1_RowsNonNegativeSumAtMostOne ==
    ValidConfig =>
       /\ \A i \in DOMAIN committed :
             /\ RowNonNegative(committed[i].row)
             /\ RLe(RowSum(committed[i].row), R(1))
       /\ outcome = "ok" =>
             \A t \in DOMAIN weights :
                /\ RowNonNegative(weights[t])
                /\ RLe(RowSum(weights[t]), R(1))

\* C2: when the native routine returns a non-zero status or a non-finite
\* output element, refine_weights returns exactly the weights _python_refine
\* computes for the same alpha, base and aggressiveness, and no committed row
\* (nor any row of the weight matrix) holds a non-finite value.
C2_NativeFailureGivesFallbackBlend ==
    /\ NativeReportedFailure =>
          /\ ~decision.result.raised
          /\ decision.result.weights =
                ZipDict(decision.keys,
                        PythonRefine(hft_engine.fallback_mix, DecisionAlphaArr,
                                     DecisionBaseArr, decision.aggressiveness))
    /\ \A i \in DOMAIN committed : RowFinite(committed[i].row)
    /\ \A t \in DOMAIN weights : RowFinite(weights[t])

\* C2 witness: a native call with a non-finite output was refined by the
\* fallback and its row committed.
C2_Witness ==
    /\ NativeReportedFailure
    /\ decision.native.status = 0
    /\ committed # <<>>
    /\ committed[Len(committed)].refined
    /\ ~RowIsZero(committed[Len(committed)].row)

\* C3: in a run with a valid configuration, whichever way the native
\* dependency fails (no library, no symbol, non-zero status, non-finite
\* output, a fault raised during the call), refine_weights returns a result
\* tagged fallback, the fault does not reach the caller and the run is not
\* halted by it.
C3_NativeFaultNeverPropagates ==
    ValidConfig =>
       /\ (decision.made /\ hft_engine.enabled /\ decision.keys # <<>>
           /\ ~(/\ hft_engine.decide_fn
                /\ decision.native.kind = "return"
                /\ decision.native.status = 0
                /\ SeqAllFinite(decision.native.out)))
             => /\ ~decision.result.raised
                /\ decision.result.source = "python-fallback"
       /\ outcome # "NativeFault"

\* C4: a disabled engine, or an empty alpha vector, makes refine_weights
\* return its base_weights argument unchanged, tagged fallback, with no
\* latency and without calling the native routine; a disabled engine never
\* loaded a library or resolved a handle.
C4_DisabledIsIdentity ==
    /\ (decision.made /\ (~hft_engine.enabled \/ decision.keys = <<>>)) =>
          /\ ~decision.result.raised
          /\ decision.result.weights = decision.base_weights
          /\ decision.result.source = "python-fallback"
          /\ decision.result.latency_ms = "None"
          /\ ~decision.result.called
    /\ ~hft_engine.enabled => (hft_engine.lib = "None" /\ ~hft_engine.decide_fn)

\* C4 witness: a disabled engine was called with a non-empty alpha and
\* non-zero base weights.
C4_Witness ==
    /\ decision.made
    /\ hft_engine.present /\ ~hft_engine.enabled
    /\ Len(decision.keys) = 3
    /\ \E k \in DOMAIN decision.base_weights : decision.base_weights[k] # R(0)

\* the conditions under which the native path succeeds
NativeSucceeded ==
    /\ hft_engine.enabled
    /\ decision.keys # <<>>
    /\ hft_engine.decide_fn
    /\ decision.native.kind = "return"
    /\ decision.native.status = 0
    /\ SeqAllFinite(decision.native.out)

\* C5: a result of refine_weights is tagged "cpp" exactly when the engine is
\* enabled, the alpha is non-empty, a handle was resolved at construction,
\* the native call returned status 0 and every output is finite; every other
\* result is tagged "python-fallback".  A "cpp" result holds the native
\* outputs divided by their L1 norm, or as they are when the norm is 0.
C5_NativeTagExactlyOnSuccess ==
    (decision.made /\ ~decision.result.raised) =>
       /\ decision.result.source \in {"cpp", "python-fallback"}
       /\ (decision.result.source = "cpp") <=> NativeSucceeded
       /\ decision.result.source = "cpp" =>
             LET out == decision.native.out
                 l1  == RSumSeq(SeqAbs(out))
             IN  \A i \in DOMAIN decision.keys :
                    decision.result.weights[decision.keys[i]] =
                       IF l1 = R(0) THEN out[i] ELSE RDiv(out[i], l1)

\* C5 witness: a native result with a non-zero norm was returned.
C5_Witness ==
    /\ decision.made
    /\ ~decision.result.raised
    /\ decision.result.source = "cpp"
    /\ Len(decision.keys) = 3
    /\ RSumSeq(SeqAbs(decision.native.out)) = R(4)

\* the committed row in force after position t: the one of the latest
\* processed rebalance date strictly before t
LatestCommittedBefore(t) ==
    LET earlier == {i \in DOMAIN committed : committed[i].loc < t}
        last    == CHOOSE i \in earlier : \A j \in earlier : committed[j].loc <= committed[i].loc
    IN  committed[last].row

\* C6: the row computed at a rebalance date d is not in force on d; it is in
\* force on the next trading day, and the row of any day t is all zero or a
\* row decided at a date strictly before t.  With liquidity_buffer = 0.2,
\* top_n = 1 selecting X at d and no refiner, weight(X) is 0.8 on the day
\* after d and 0 on d.
C6_ExecutionLag ==
    outcome = "ok" =>
       /\ \A t \in DOMAIN weights :
             \/ RowIsZero(weights[t])
             \/ \E i \in DOMAIN committed :
                   committed[i].loc < t /\ weights[t] = committed[i].row
       /\ \A i \in DOMAIN committed :
             LET loc == committed[i].loc
                 X   == committed[i].selected[1]
             IN  /\ (loc + 1) \in DOMAIN weights => weights[loc + 1] = committed[i].row
                 /\ (/\ args.config.liquidity_buffer = Q(1, 5)
                     /\ args.config.top_n = 1
                     /\ ~hft_engine.present) =>
                       /\ weights[loc][X] = R(0)
                       /\ (loc + 1) \in DOMAIN weights => weights[loc + 1][X] = Q(4, 5)

\* C6 witness: the run ended with a row for X, decided with buffer 0.2 and
\* top_n = 1 and no refiner, that has a next trading day.
C6_Witness ==
    /\ outcome = "ok"
    /\ args.config.liquidity_buffer = Q(1, 5)
    /\ args.config.top_n = 1
    /\ ~hft_engine.present
    /\ \E i \in DOMAIN committed :
          /\ (committed[i].loc + 1) \in DOMAIN weights
          /\ weights[committed[i].loc + 1][committed[i].selected[1]] = Q(4, 5)

\* C7: in a run with a valid configuration, in the final weight matrix, on every trading day t after the first
\* processed rebalance date the row in force is the row computed at the
\* latest processed rebalance date strictly before t.
C7_HeldBetweenRebalances ==
    (ValidConfig /\ outcome = "ok") =>
       \A t \in DOMAIN weights :
          (\E i \in DOMAIN committed : committed[i].loc < t) =>
             weights[t] = LatestCommittedBefore(t)

\* C8 (as claimed): a run with start_date >= end_date ends in the empty
\* result and raises nothing.
C8_BadDatesGiveEmptyResult ==
    (pc = "done" /\ args.start_date >= args.end_date) => outcome = "empty"

\* C8 (amended): a run with start_date >= end_date raises ValueError, before
\* anything is fetched or computed.
C8_BadDatesRaiseValueError ==
    (pc = "done" /\ args.start_date >= args.end_date) =>
       /\ outcome = "ValueError"
       /\ \A s \in Symbols : fetch[s] = "unasked"
       /\ price_df = EmptyPanel
       /\ weights = <<>> /\ committed = <<>> /\ factor_snapshots = <<>>
       /\ ~decision.made

\* C8 witness: a run with start_date = end_date has ended.
C8_Witness ==
    pc = "done" /\ args.start_date = args.end_date /\ outcome = "ValueError"

\* no symbol of the request got a usable close series
NothingFetched ==
    \A i \in DOMAIN args.symbols : fetch[args.symbols[i]] \in {"raise", "empty", "noclose"}

\* C9: when the price panel is empty (no symbols, or every fetch raising or
\* returning an empty frame or one without a close column), the run returns
\* the empty result without raising, and nothing is scored, refined or costed.
C9_EmptyPanelGivesEmptyResult ==
    (pc = "done" /\ args.start_date < args.end_date /\ NothingFetched) =>
       /\ outcome = "empty"
       /\ PanelEmpty(price_df)
       /\ factor_snapshots = <<>> /\ committed = <<>> /\ weights = <<>>
       /\ ~decision.made /\ hft_orders = <<>>

\* C9 witness: a run over three symbols whose fetches fail in three
\* different ways has ended.
C9_Witness ==
    /\ pc = "done"
    /\ Len(args.symbols) = 3
    /\ fetch["A"] = "raise" /\ fetch["B"] = "empty" /\ fetch["C"] = "noclose"
    /\ outcome = "empty"

\* no trading day that has a return is the month-end label of its month
NoRebalanceDateInRange ==
    \A i \in DOMAIN price_df.index :
       i > 1 => price_df.index[i] # MonthEnd(MonthOf(price_df.index[i]))

\* C10: a run whose panel has at most lookback_days + 5 rows, or whose
\* period holds no rebalance date, returns the empty result and raises
\* nothing; no date is scored.
C10_DataGapsGiveEmptyResult ==
    (/\ pc = "done"
     /\ ~PanelEmpty(price_df)
     /\ \/ Len(price_df.index) <= args.config.lookback_days + 5
        \/ NoRebalanceDateInRange) =>
       /\ outcome = "empty"
       /\ committed = <<>> /\ factor_snapshots = <<>> /\ ~decision.made

\* C10 witness: a panel with enough history but no rebalance date ended the
\* run with the empty result.
C10_Witness ==
    /\ pc = "done"
    /\ Len(price_df.index) > args.config.lookback_days + 5
    /\ NoRebalanceDateInRange
    /\ outcome = "empty"

\* the loop went through every rebalance date and the run reached the test
\* of line 365
LoopCompleted == pc = "done" /\ rebal_dates # <<>> /\ ri = Len(rebal_dates)

\* C11: in a run with a valid configuration, after all rebalance dates are
\* processed, the run returns the empty result exactly when every rebalance
\* date yielded an all-zero row; a run with a committed row that has a
\* non-zero entry (mixed signs included) is not turned into the empty result.
C11_EmptyExactlyWhenAllRowsZero ==
    (ValidConfig /\ LoopCompleted) =>
       ((outcome = "empty") <=>
           \A i \in DOMAIN committed : RowIsZero(committed[i].row))

\* the configuration breaks a constraint a programmer must keep
ConfigViolation ==
    args.config.lookback_days <= 0 \/ args.config.top_n <= 0

\* C12: a run given a configuration with lookback_days <= 0 or top_n <= 0
\* ends by raising an error at its boundary, before anything is fetched,
\* scored or weighted; it returns neither weights nor the empty result.
C12_ConfigViolationRaisesAtBoundary ==
    (pc = "done" /\ args.start_date < args.end_date /\ ConfigViolation) =>
       /\ outcome \notin {"ok", "empty"}
       /\ \A s \in Symbols : fetch[s] = "unasked"
       /\ committed = <<>> /\ factor_snapshots = <<>>

\* C13: without a refiner and with top_n >= 0, the row of a rebalance date
\* selects exactly k = min(top_n, number of ranked symbols) symbols, no
\* unselected symbol has a strictly higher score than a selected one, every
\* selected symbol gets (1 - liquidity_buffer) / k and every other symbol 0;
\* ranked A > B > C with top_n = 2 gives selected [A, B], each with
\* 0.5 x (1 - liquidity_buffer), and C with 0.
C13_TopNEqualWeights ==
    (~hft_engine.present /\ args.config.top_n >= 0) =>
       \A i \in DOMAIN committed :
          LET rec      == committed[i]
              k        == Min2(args.config.top_n, Len(rec.ranked))
              chosen   == SeqToSet(rec.selected)
              share    == RDiv(RSub(R(1), args.config.liquidity_buffer), R(k))
          IN  /\ Len(rec.selected) = k
              /\ Cardinality(chosen) = k
              /\ chosen \subseteq DOMAIN rec.scores
              /\ \A x \in chosen, u \in (DOMAIN rec.scores) \ chosen :
                    ~RLt(rec.scores[x], rec.scores[u])
              /\ DOMAIN rec.row = SeqToSet(price_df.columns)
              /\ \A c \in DOMAIN rec.row :
                    rec.row[c] = IF c \in chosen THEN share ELSE R(0)
              /\ (rec.ranked = <<"A", "B", "C">> /\ args.config.top_n = 2) =>
                    /\ rec.selected = <<"A", "B">>
                    /\ rec.row["A"] = RMul(Q(1, 2), RSub(R(1), args.config.liquidity_buffer))
                    /\ rec.row["B"] = rec.row["A"]
                    /\ rec.row["C"] = R(0)

\* C13 witness: without a refiner, scores ranking A > B > C with top_n = 2
\* and a buffer of 0.2 gave the row A = B = 0.4, C = 0.
C13_Witness ==
    /\ ~hft_engine.present
    /\ args.config.top_n = 2
    /\ args.config.liquidity_buffer = Q(1, 5)
    /\ \E i \in DOMAIN committed :
          /\ committed[i].ranked = <<"A", "B", "C">>
          /\ RLt(committed[i].scores["B"], committed[i].scores["A"])
          /\ RLt(committed[i].scores["C"], committed[i].scores["B"])
          /\ committed[i].row = [c \in {"A", "B", "C"} |->
                                   IF c = "C" THEN R(0) ELSE Q(2, 5)]

\* C14: in a run with a valid configuration, every committed weight row sums to at most 1 - liquidity_buffer,
\* whether the run has no refiner, a disabled refiner, or a refiner that
\* returns native or fallback weights.
C14_LiquidityBufferKept ==
    ValidConfig =>
       \A i \in DOMAIN committed :
          RLe(RowSum(committed[i].row), RSub(R(1), args.config.liquidity_buffer))

\* the earliest day of each calendar month that has a day in the index
FirstTradingDays(index) ==
    SortedSeq({d \in SeqToSet(index) :
                  \A e \in SeqToSet(index) : MonthOf(e) = MonthOf(d) => d <= e})

\* C15: in a run with a valid configuration, the rebalance dates are exactly the first trading day of each
\* calendar month present in the return index: one date per such month, the
\* earliest trading day of the month.
C15_RebalanceOnFirstTradingDay ==
    (ValidConfig /\ returns_index # <<>>) =>
       rebal_dates = FirstTradingDays(returns_index)

\* ascending order of symbol identifiers
IdBefore(a, b) ==
    LET ids == <<"A", "B", "C">>
        pos(x) == CHOOSE i \in DOMAIN ids : ids[i] = x
    IN  pos(a) < pos(b)

\* C16: in a run with a valid configuration, the ranking of a rebalance
\* date is by descending score, symbols
\* with equal scores in ascending order of their identifier, so the selected
\* set and the alpha vector order do not depend on the column order of the
\* price panel.
C16_TiesBrokenBySymbol ==
    ValidConfig =>
       \A i \in DOMAIN committed :
          LET ranked == committed[i].ranked
              scores == committed[i].scores
          IN  \A a, b \in DOMAIN ranked :
                 a < b =>
                    \/ RLt(scores[ranked[b]], scores[ranked[a]])
                    \/ /\ scores[ranked[a]] = scores[ranked[b]]
                       /\ IdBefore(ranked[a], ranked[b])

\* C17: for fixed non-negative commission_rate, slippage_bps and
\* impact_coefficient the trading cost does not decrease with turnover: of
\* two turnover values a <= b, cost(a) <= cost(b).
C17_CostMonotoneInTurnover ==
    \A i, j \in DOMAIN turnover :
       RLe(turnover[i], turnover[j]) => RLe(trading_cost[i], trading_cost[j])

\* C17 witness: with every cost parameter positive, a larger turnover was
\* charged a strictly larger cost.
C17_Witness ==
    /\ turnover = <<Q(1, 10), Q(13, 20)>>
    /\ RLt(R(0), args.config.commission_rate)
    /\ RLt(R(0), args.config.slippage_bps)
    /\ RLt(R(0), args.config.impact_coefficient)
    /\ RLt(trading_cost[1], trading_cost[2])

\* C18: with the factor-weight map {momentum: 1.0}, the composite score of
\* every symbol at a processed rebalance date equals the symbol's
\* standardised momentum; the factors absent from the map have no column in
\* the z-matrix and add nothing, and the date is still scored.
C18_SingleFactorScoreIsZScore ==
    args.config.factor_weights = MomentumOnly =>
       \A i \in DOMAIN committed :
          LET rec == committed[i]
          IN  /\ DOMAIN rec.z_mat = {"momentum_60d"}
              /\ DOMAIN rec.scores = SeqToSet(price_df.columns)
              /\ \A c \in DOMAIN rec.scores :
                    rec.scores[c] = rec.z_mat["momentum_60d"][c]

\* C18 witness: a date was scored under the momentum-only map with a
\* momentum z-score that tells the three symbols apart.
C18_Witness ==
    /\ args.config.factor_weights = MomentumOnly
    /\ \E i \in DOMAIN committed :
          /\ committed[i].scores =
                [c \in {"A", "B", "C"} |->
                    IF c = "A" THEN R(-2) ELSE R(1)]
          /\ committed[i].z_mat["momentum_60d"]["A"] = R(-2)

\* the recorded call was answered by _python_refine
FallbackBlendReturned ==
    /\ decision.made
    /\ ~decision.result.raised
    /\ hft_engine.enabled
    /\ decision.keys # <<>>
    /\ decision.result.source = "python-fallback"

\* clamp(fallback_mix + aggressiveness * 0.25, 0, 1) for the recorded call
ClaimedMix ==
    LET raw == RAdd(hft_engine.fallback_mix,
                    RMul(decision.aggressiveness, Q(1, 4)))
    IN  IF RLt(R(1), raw) THEN R(1) ELSE IF RLt(raw, R(0)) THEN R(0) ELSE raw

\* (1 - mix) * base_normalized + mix * alpha_normalized for the recorded call
ClaimedBlend ==
    LET base    == DecisionBaseArr
        base_l1 == RSumSeq(SeqAbs(base))
        alpha   == AdjustedAlpha(DecisionAlphaArr)
    IN  [i \in DOMAIN decision.keys |->
            RAdd(RMul(RSub(R(1), ClaimedMix),
                      IF base_l1 = R(0) THEN base[i] ELSE RDiv(base[i], base_l1)),
                 RMul(ClaimedMix, alpha[i]))]

\* C19: the fallback blend uses mix = clamp(fallback_mix + aggressiveness *
\* 0.25, 0, 1), which is 0.60 for aggressiveness 1.0 and fallback_mix 0.35;
\* it returns (1 - mix) * base_normalized + mix * alpha_normalized divided by
\* its L1 norm, so the returned weights have absolute sum 1 unless the blend
\* is all zero.
C19_FallbackBlendFormula ==
    FallbackBlendReturned =>
       LET blend  == ClaimedBlend
           l1     == RSumSeq(SeqAbs(blend))
           result == [i \in DOMAIN decision.keys |->
                         decision.result.weights[decision.keys[i]]]
       IN  /\ (decision.aggressiveness = R(1) /\ hft_engine.fallback_mix = Q(7, 20))
                 => ClaimedMix = Q(3, 5)
           /\ IF l1 = R(0)
              THEN \A i \in DOMAIN result : result[i] = R(0)
              ELSE /\ \A i \in DOMAIN result : result[i] = RDiv(blend[i], l1)
                   /\ RSumSeq(SeqAbs(result)) = R(1)

\* C19 witness: the fallback answered a call with aggressiveness 1.0 and
\* fallback_mix 0.35 over three symbols with non-zero base weights, and the
\* result has absolute sum 1.
C19_Witness ==
    /\ FallbackBlendReturned
    /\ decision.aggressiveness = R(1)
    /\ hft_engine.fallback_mix = Q(7, 20)
    /\ Len(decision.keys) = 3
    /\ RSumSeq(SeqAbs(DecisionBaseArr)) = R(1)
    /\ RowAbsSum(decision.result.weights) = R(1)

\* the L trading days of the return index immediately before position loc
PrecedingDays(loc, L) == [j \in 1..L |-> returns_index[loc - L + j]]

\* a configuration and a factor map under which a date with a window is
\* scored
ScoringConfigured ==
    /\ args.config.lookback_days >= 1
    /\ args.config.top_n >= 1
    /\ args.config.factor_weights \in {NoFactorWeights, MomentumOnly}

\* C20: every rebalance date d the loop has passed that has at least
\* L = lookback_days daily returns before it was scored, its momentum and
\* its volatility both computed over the L trading days immediately before
\* d, and nothing dated on or after d is in either window.
C20_TrailingWindowBeforeDate ==
    ScoringConfigured =>
       \A k \in 1..ri :
          LET d   == rebal_dates[k]
              loc == GetLoc(returns_index, d)
              L   == args.config.lookback_days
          IN  loc >= L =>
                 \E i \in DOMAIN committed :
                    /\ committed[i].date = d
                    /\ committed[i].window_returns = PrecedingDays(loc, L)
                    /\ committed[i].window_prices = PrecedingDays(loc, L)
                    /\ \A j \in 1..L : PrecedingDays(loc, L)[j] < d

\* the factor tells the symbols apart: at least 3 values, two of them differ
Informative(col) ==
    /\ Cardinality(NotNa(col)) >= 3
    /\ \E a, b \in NotNa(col) : col[a] # col[b]

\* what the factor f adds to the score of c, as claimed: nothing when the
\* factor is not informative or the value of c is missing
ClaimedContribution(f, c) ==
    IF Informative(scoring.factor_mat[f]) /\ ~IsNaN(scoring.factor_mat[f][c])
    THEN RMul(GetFactorWeights(args.config)[f], scoring.z_mat[f][c])
    ELSE R(0)

FactorWeightsFinite ==
    \A f \in DOMAIN GetFactorWeights(args.config) :
        IsFinite(GetFactorWeights(args.config)[f])

\* C21: in composite scoring a factor with fewer than 3 non-missing values
\* or with zero cross-sectional standard deviation contributes 0 to every
\* symbol's score; a symbol whose value for some factor is missing gets 0
\* from that factor and stays in the ranked set; the symbols removed from the
\* ranking are exactly those whose combined score is not finite.  (Factor
\* weights that are finite numbers give every symbol a finite score.)
C21_NeutralFactorsAndMissingValues ==
    scoring.done =>
       /\ DOMAIN scoring.score =
             {c \in SeqToSet(ScoreSymbols) : IsFinite(scoring.combined[c])}
       /\ FactorWeightsFinite =>
             /\ DOMAIN scoring.score = SeqToSet(ScoreSymbols)
             /\ \A c \in SeqToSet(ScoreSymbols) :
                   scoring.score[c] =
                      RSum([f \in DOMAIN scoring.z_mat |-> ClaimedContribution(f, c)],
                           DOMAIN scoring.z_mat)

\* C21 witness: a pass scored a factor with a spread in which one symbol has
\* no value, next to a factor with only two values; the symbol without the
\* value is ranked and some symbol has a non-zero score.
C21_Witness ==
    /\ scoring.done
    /\ FactorWeightsFinite
    /\ \E f \in DOMAIN scoring.z_mat :
          /\ Informative(scoring.factor_mat[f])
          /\ \E c \in SeqToSet(ScoreSymbols) :
                IsNaN(scoring.factor_mat[f][c]) /\ c \in DOMAIN scoring.score
    /\ \E f \in DOMAIN scoring.z_mat :
          Cardinality(NotNa(scoring.factor_mat[f])) = 2
    /\ \E c \in DOMAIN scoring.score : scoring.score[c] # R(0)

\* the row the loop wrote at position p of the weight matrix, the zero row
\* where it wrote none
RowWrittenAt(p) ==
    IF \E k \in DOMAIN committed : committed[k].loc = p
    THEN committed[CHOOSE k \in DOMAIN committed : committed[k].loc = p].row
    ELSE ZeroRow(price_df.columns)

\* sum over the symbols of |w(t, i) - w(t - 1, i)| on the lagged matrix
AbsChange(t) ==
    RSum([c \in DOMAIN weights[t] |->
             RAbs(RSub(weights[t][c], weights[t - 1][c]))], DOMAIN weights[t])

\* sum over the symbols of w(t, i) * asset_return(t, i)
WeightedReturn(t) ==
    RSum([c \in DOMAIN weights[t] |-> RMul(weights[t][c], asset_returns[t][c])],
         DOMAIN weights[t])

\* C22: the turnover charged at date t is min(sum_i |w(t,i) - w(t-1,i)|,
\* max_portfolio_turnover) on the lagged weight matrix and 0 on the first
\* date; net_return(t) = sum_i w(t,i) * asset_return(t,i) - trading_cost(t);
\* the cap changes no weight: the lagged matrix holds the rows the loop
\* wrote, one position later.
C22_TurnoverCappedNetReturn ==
    outcome = "ok" =>
       \A t \in DOMAIN weights :
          /\ turnover[t] = IF t = 0 THEN R(0)
                           ELSE RMin(AbsChange(t), args.config.max_portfolio_turnover)
          /\ port_ret[t] = RSub(WeightedReturn(t), trading_cost[t])
          /\ weights[t] = IF t = 0 THEN ZeroRow(price_df.columns)
                          ELSE RowWrittenAt(t - 1)

\* C22 witness: a finished run has a date whose weight change is above the
\* cap, so the cap was applied, and on which the weighted asset return is
\* not zero.
C22_Witness ==
    /\ outcome = "ok"
    /\ \E t \in DOMAIN weights :
          /\ t > 0
          /\ RLt(args.config.max_portfolio_turnover, AbsChange(t))
          /\ turnover[t] = args.config.max_portfolio_turnover
          /\ WeightedReturn(t) # R(0)

\* the rebalances whose row changed the portfolio: the weights of the date
\* on which the row takes effect differ from those of the date before by
\* more than epsilon
ChangingRebalances ==
    {k \in DOMAIN committed :
        /\ committed[k].loc + 1 \in DOMAIN weights
        /\ RLt(Epsilon, AbsChange(committed[k].loc + 1))}

\* C23: the reported total_trades equals (number of rebalance dates whose
\* turnover exceeds epsilon) x top_n x 2: a rebalance that changes the
\* portfolio is counted once and no other date is counted.  Stated for
\* configurations with lookback_days >= 1 and top_n >= 1.
C23_TotalTradesCountsRebalances ==
    (ValidConfig /\ outcome = "ok") =>
       run_result.total_trades =
          Cardinality(ChangingRebalances) * args.config.top_n * 2

\* the forward horizon of the claim: max(5, lookback_days / 3) trading days
ClaimedHorizon == IF args.config.lookback_days \div 3 > 5
                  THEN args.config.lookback_days \div 3 ELSE 5

\* the reported sample count is the number of recorded dates
SamplesAreRecordedDates ==
    run_result.returned =>
       /\ run_result.factor_metrics.samples = Len(ic_records)
       /\ run_result.factor_metrics.samples =
             Cardinality({ic_records[i].date : i \in DOMAIN ic_records})

\* C24 as stated: an IC sample is recorded for a rebalance date d only if
\* the full forward horizon of max(5, lookback_days / 3) trading days is
\* available from d in the return index and at least 3 symbols have a score
\* and a forward return; the forward return is accumulated over exactly that
\* horizon; the reported sample count is the number of recorded dates.
C24_ICNeedsFullHorizon ==
    /\ \A i \in DOMAIN ic_records :
          LET r == ic_records[i]
          IN  /\ r.first = GetLoc(returns_index, r.date)
              /\ r.first + ClaimedHorizon <= Len(returns_index)
              /\ r.stop - r.first = ClaimedHorizon
              /\ r.aligned >= 3
    /\ SamplesAreRecordedDates

\* C24 amended: an IC sample is recorded for a rebalance date d only if at
\* least 5 trading days from d are left in the return index and at least 3
\* symbols have a score and a forward return; the forward return is
\* accumulated from d over the horizon max(5, lookback_days / 3) cut at the
\* end of the return index; the reported sample count is the number of
\* recorded dates.
C24_ICNeedsFiveDays ==
    /\ \A i \in DOMAIN ic_records :
          LET r == ic_records[i]
              left == Len(returns_index) - r.first
          IN  /\ r.first = GetLoc(returns_index, r.date)
              /\ left >= 5
              /\ r.stop - r.first =
                    IF left < ClaimedHorizon THEN left ELSE ClaimedHorizon
              /\ r.aligned >= 3
    /\ SamplesAreRecordedDates

\* C24 witness: the summary reports a sample whose forward return covers 5
\* days although the horizon is longer, next to a sample over the full
\* horizon.
C24_Witness ==
    /\ run_result.returned
    /\ run_result.factor_metrics.samples = 2
    /\ \E i \in DOMAIN ic_records :
          /\ ic_records[i].stop - ic_records[i].first = 5
          /\ ClaimedHorizon > 5
    /\ \E i \in DOMAIN ic_records :
          ic_records[i].stop - ic_records[i].first = ClaimedHorizon

\* the net returns have no spread: fewer than two periods, or all equal, so
\* the annualized volatility is 0
NoVolatility ==
    \/ Cardinality(DOMAIN port_ret) < 2
    \/ \A a, b \in DOMAIN port_ret : port_ret[a] = port_ret[b]

\* the IC samples have no spread: their standard deviation is 0
ICStdZero ==
    \A i, j \in DOMAIN ic_records : ic_records[i].ic = ic_records[j].ic

\* C25: zero denominators never raise: sharpe_ratio is 0 when the annualized
\* volatility is 0 (or fewer than two return periods exist), ic_ir is None
\* when the IC series is empty or has zero standard deviation, ic_mean is
\* None when no IC sample exists, and the p95 latency is None with fewer than
\* two latency samples.
C25_ZeroDenominatorsGiveMarkers ==
    outcome = "ok" =>
       /\ run_result.returned
       /\ NoVolatility => run_result.sharpe_ratio.zero
       /\ (ic_records = <<>> \/ ICStdZero) => run_result.factor_metrics.ic_ir.none
       /\ ~run_result.factor_metrics.ic_ir.none =>
             ~run_result.factor_metrics.ic_ir.zero_denominator
       /\ ic_records = <<>> => run_result.factor_metrics.ic_mean.none
       /\ (~run_result.decision_engine.none /\ Len(hft_latency_ms) < 2) =>
             run_result.decision_engine.latency_ms_p95 = "None"

\* C25 witness: a finished run whose net returns are all 0 reports a Sharpe
\* ratio of 0 and, having recorded no IC sample, no ic_mean and no ic_ir.
C25_Witness ==
    /\ outcome = "ok"
    /\ NoVolatility
    /\ run_result.sharpe_ratio.zero
    /\ ic_records = <<>>
    /\ run_result.factor_metrics.ic_ir.none
    /\ run_result.factor_metrics.ic_mean.none

\* the rebalance dates the loop has gone through
DatesPassed == {rebal_dates[i] : i \in 1..ri}

\* a date the loop left before ranking: not enough rows before it, no
\* factor column, or no finite score
DateSkipped(d) ==
    /\ d \in DatesPassed
    /\ \A i \in DOMAIN factor_snapshots : factor_snapshots[i].date # d

\* the dates of the rankings that were not empty, in the order of the loop
RankedDates == [i \in DOMAIN factor_snapshots |-> factor_snapshots[i].date]

NativeTagged == {i \in DOMAIN hft_orders : hft_orders[i].engine = "cpp"}

\* C26: with a refiner configured, refine_weights is invoked exactly once
\* for each rebalance date that produced a non-empty ranking, in ascending
\* date order and before that date's row is committed, and never for a
\* skipped date; the decision_engine diagnostics hold one order record per
\* invocation, cpp_hit_ratio is the number of native-tagged invocations
\* divided by the number of invocations (so it lies in [0, 1]), and
\* decision_engine is None when no invocation happened.
C26_OneRefineCallPerRankedDate ==
    /\ hft_engine.present =>
          /\ refine_calls = RankedDates
          /\ \A i, j \in DOMAIN refine_calls : i < j => refine_calls[i] < refine_calls[j]
          /\ \A i \in DOMAIN refine_calls : ~DateSkipped(refine_calls[i])
          /\ \A k \in DOMAIN committed :
                k \in DOMAIN refine_calls /\ refine_calls[k] = committed[k].date
    /\ ~hft_engine.present => refine_calls = <<>>
    /\ outcome = "ok" =>
          IF refine_calls = <<>> THEN run_result.decision_engine.none
          ELSE /\ ~run_result.decision_engine.none
               /\ Len(run_result.decision_engine.orders) = Len(refine_calls)
               /\ \A i \in DOMAIN refine_calls :
                     run_result.decision_engine.orders[i].timestamp = refine_calls[i]
               /\ run_result.decision_engine.cpp_hit_ratio =
                     Q(Cardinality(NativeTagged), Len(refine_calls))
               /\ RLe(R(0), run_result.decision_engine.cpp_hit_ratio)
               /\ RLe(run_result.decision_engine.cpp_hit_ratio, R(1))

\* C26 witness: a finished run with a refiner skipped its first rebalance
\* date and refined two later ones, once through the native routine and once
\* through the fallback, and reports two orders and a hit ratio of 1/2.
C26_Witness ==
    /\ outcome = "ok"
    /\ hft_engine.present
    /\ Len(refine_calls) = 2
    /\ \E d \in DatesPassed : DateSkipped(d)
    /\ Len(run_result.decision_engine.orders) = 2
    /\ run_result.decision_engine.cpp_hit_ratio = Q(1, 2)

\* C27: no single symbol's weight in a committed row exceeds
\* max_position_per_symbol, for every top_n, number of ranked symbols and
\* liquidity_buffer, also when fewer than 1 / max_position_per_symbol
\* symbols are selected.  Stated for configurations with lookback_days >= 1
\* and top_n >= 1.
C27_WeightsWithinMaxPosition ==
    ValidConfig =>
       \A k \in DOMAIN committed : \A c \in DOMAIN committed[k].row :
          RLe(committed[k].row[c], args.config.max_position_per_symbol)

\* the symbols with a non-zero weight in a row
NonZeroSymbols(row) == {c \in DOMAIN row : row[c] # R(0)}

\* C28: in every committed weight row the number of symbols with a non-zero
\* weight is at most top_n and every symbol with a non-zero weight belongs to
\* the set selected at that rebalance date, whether or not a refiner replaced
\* the row.  Stated for configurations with lookback_days >= 1 and
\* top_n >= 1.
C28_NonZeroWeightsAreSelected ==
    ValidConfig =>
       \A k \in DOMAIN committed :
          /\ Cardinality(NonZeroSymbols(committed[k].row)) <= args.config.top_n
          /\ NonZeroSymbols(committed[k].row) \subseteq SeqToSet(committed[k].selected)

\* the equity that is exactly the initial capital
InitialEquity == [capital |-> args.initial_capital, growth |-> <<>>]

LastDate == Len(returns_index) - 1

\* C29: on the first date of the return index the lagged weight row is all
\* zero and the charged turnover is 0, so the first net return is 0 and the
\* equity on the first date equals initial_capital; total_return therefore
\* measures growth relative to initial_capital: it is the equity of the last
\* date divided by initial_capital, minus 1.
C29_FirstDateEquityIsInitialCapital ==
    outcome = "ok" =>
       /\ RowIsZero(weights[0])
       /\ turnover[0] = R(0)
       /\ port_ret[0] = R(0)
       /\ run_result.equity_curve[0] = InitialEquity
       /\ run_result.total_return.first = InitialEquity
       /\ run_result.total_return.last = run_result.equity_curve[LastDate]

\* C29 witness: a finished run on prices that move on the first date, whose
\* equity starts at initial_capital and ends away from it.
C29_Witness ==
    /\ outcome = "ok"
    /\ \E c \in DOMAIN asset_returns[0] : asset_returns[0][c] # R(0)
    /\ run_result.equity_curve[0] = InitialEquity
    /\ run_result.equity_curve[LastDate] # InitialEquity

\* the engine as its constructor left it
ConstructedEngine ==
    NewEngine(hft_engine.library_paths, hft_engine.enabled, hft_engine.fallback_mix)

\* what the call of caller t returns when it runs alone on the engine as
\* constructed
ResultAlone(t) ==
    RefineWeights(ConstructedEngine, calls[t].timestamp, calls[t].keys,
                  calls[t].alpha_vector, calls[t].base_weights,
                  calls[t].aggressiveness, calls[t].native)

\* C30: the routine handle is resolved at most once, at construction, and
\* refine_weights never writes engine state (enabled, fallback_mix, library,
\* handle): after any sequence or interleaving of refine_weights calls on one
\* engine the handle is the one resolved at construction, and each of two
\* concurrent calls returns the weights and source tag it would return when
\* run alone.
C30_CallsLeaveEngineUnchanged ==
    /\ hft_engine = ConstructedEngine
    /\ \A t \in DOMAIN calls :
          calls[t].pc = "done" =>
             /\ calls[t].result.raised = ResultAlone(t).raised
             /\ calls[t].result.weights = ResultAlone(t).weights
             /\ calls[t].result.source = ResultAlone(t).source

\* C30 witness: on an engine with a resolved handle one call has returned
\* the native weights while the other call, whose native run reported
\* failure, is still inside refine_weights on its way to the fallback.
C30_Witness ==
    /\ pc = "calls"
    /\ hft_engine.decide_fn
    /\ \E t, u \in DOMAIN calls :
          /\ calls[t].pc = "done" /\ calls[t].result.source = "cpp"
          /\ calls[u].pc = "blend" /\ calls[u].cpp.called

=============================================================================
